---- MODULE Spec2Model ----
(***************************************************************************)
(* HomeChef Hub: recipe versioning, version-pinned plan items, the         *)
(* shopping-list aggregation (mergeShoppingList), the shopping list under  *)
(* user interaction, the plan generator and undo.                          *)
(*                                                                         *)
(* Strings are tuples of one-character strings, so that toLowerCase, the   *)
(* key template `${name}-${unit}` and the \b...\b regular expression are   *)
(* computed character by character.  JavaScript numbers that the code      *)
(* divides (quantities) are exact fractions <<numerator, denominator>>.    *)
(* An optional version that the code only tests for truthiness is 0 when   *)
(* it is absent; an optional rating that is absent is NoRating.            *)
(***************************************************************************)
EXTENDS Integers, Sequences, FiniteSets, TLC

VARIABLES variant, recipes, plan, planHistory, shoppingItems, settings, now,
          storedPlan, springForward, inFlight

vars == <<variant, recipes, plan, planHistory, shoppingItems, settings, now,
          storedPlan, springForward, inFlight>>

(***************************************************************************)
(* Bounds of the model.                                                    *)
(***************************************************************************)
\* the meals that the user adds to a plan one by one
MaxPlanLen == 2
\* the recipes of a catalog
MaxRecipes == 2
\* the clock: the handler calls are counted from 1 up to this bound
MaxNow == 4
\* the outcomes of Math.random() that are told apart
RandomLevels == 2

(***************************************************************************)
(* Generic helpers.                                                        *)
(***************************************************************************)
Range(s) == {s[i] : i \in DOMAIN s}

SeqsUpTo(S, n) == UNION {[1..k -> S] : k \in 0..n}

Min(S) == CHOOSE x \in S : \A y \in S : x <= y

Max(S) == CHOOSE x \in S : \A y \in S : x >= y

RECURSIVE GCD(_, _)
GCD(a, b) == IF b = 0 THEN a ELSE GCD(b, a % b)

\* JavaScript numbers as exact fractions in lowest terms.
Frac(n, d) == LET g == GCD(n, d) IN IF g = 0 THEN <<0, 1>> ELSE <<n \div g, d \div g>>

Num(n) == <<n, 1>>

FracAdd(a, b) == Frac(a[1] * b[2] + b[1] * a[2], a[2] * b[2])

FracMul(a, b) == Frac(a[1] * b[1], a[2] * b[2])

FracDiv(a, b) == Frac(a[1] * b[2], a[2] * b[1])

(***************************************************************************)
(* Strings: String.prototype.toLowerCase and the regular expression        *)
(* new RegExp(`\\b${escaped}\\b`, 'i').test(name).                         *)
(***************************************************************************)
UpperCase == <<"A","B","C","D","E","F","G","H","I","J","K","L","M",
               "N","O","P","Q","R","S","T","U","V","W","X","Y","Z">>

LowerCase == <<"a","b","c","d","e","f","g","h","i","j","k","l","m",
               "n","o","p","q","r","s","t","u","v","w","x","y","z">>

Digits == {"0","1","2","3","4","5","6","7","8","9"}

Alphabet == Range(UpperCase) \cup Range(LowerCase) \cup Digits \cup {"_", " ", "-"}

\* the lower-case form of every character of the alphabet
LowerTable ==
    [c \in Alphabet |->
        IF \E i \in DOMAIN UpperCase : UpperCase[i] = c
        THEN LowerCase[CHOOSE i \in DOMAIN UpperCase : UpperCase[i] = c]
        ELSE c]

LowerChar(c) == LowerTable[c]

toLowerCase(s) == [i \in DOMAIN s |-> LowerChar(s[i])]

\* \w of a regular expression without the u flag: [A-Za-z0-9_]
WordChars == Range(UpperCase) \cup Range(LowerCase) \cup Digits \cup {"_"}

IsWordChar(c) == c \in WordChars

\* \b after the first p characters of s
WordBoundary(s, p) ==
    LET before == p >= 1 /\ p <= Len(s) /\ IsWordChar(s[p])
        after == p + 1 >= 1 /\ p + 1 <= Len(s) /\ IsWordChar(s[p + 1])
    IN before # after

\* the pattern without its closing \b
RegExpTest_NoClosingBoundary(staple, name) ==
    \E p \in 0..(Len(name) - Len(staple)) :
        /\ WordBoundary(name, p)
        /\ \A k \in 1..Len(staple) : LowerChar(name[p + k]) = LowerChar(staple[k])

\* staple.replace(/[.*+?^${}()|[\]\\]/g, '\\$&') makes every character of the
\* staple match itself; the i flag compares letters without their case.
RegExpTest(staple, name) ==
    \E p \in 0..(Len(name) - Len(staple)) :
        /\ WordBoundary(name, p)
        /\ \A k \in 1..Len(staple) : LowerChar(name[p + k]) = LowerChar(staple[k])
        /\ WordBoundary(name, p + Len(staple))

isStaple(ing, pantryStaples) ==
    \E i \in DOMAIN pantryStaples : RegExpTest(pantryStaples[i], ing.item_name)

\* `${item_name.toLowerCase()}-${unit.toLowerCase()}`
KeyOf(item) == toLowerCase(item.item_name) \o <<"-">> \o toLowerCase(item.unit)

(***************************************************************************)
(* The values the inputs are drawn from.                                   *)
(***************************************************************************)
Salt == <<"S","a","l","t">>

saltLower == <<"s","a","l","t">>

SeaSalt == <<"S","e","a"," ","S","a","l","t">>

Salty == <<"S","a","l","t","y">>

Chicken == <<"C","h","i","c","k","e","n">>

chickenLower == <<"c","h","i","c","k","e","n">>

Rice == <<"R","i","c","e">>

gUnit == <<"g">>

gUpper == <<"G">>

tsp == <<"t","s","p">>

pc == <<"p","c">>

Ing(name, quantity, unit) == [item_name |-> name, quantity |-> quantity, unit |-> unit]

\* Scenario A of the specification
IngsA == <<Ing(Salt, 1, tsp), Ing(Chicken, 500, gUnit)>>

IngsB == <<Ing(chickenLower, 200, gUpper), Ing(SeaSalt, 2, tsp)>>

IngsC == <<Ing(Salty, 3, gUnit), Ing(Chicken, 100, tsp)>>

IngredientLists == {IngsA, IngsB, IngsC}

InstrX == <<"Mix", "Bake">>

InstrY == <<"Mix", "Fry">>

InstructionLists == {InstrX, InstrY}

Titles == {"Stew", "Stew 2"}

\* rating?: number.  A rating that is not there is told apart from the
\* rating 0, which is a number like any other
NoRating == -1

\* the truthiness of an optional rating
hasRatingValue(rating) == rating # NoRating /\ rating # 0

MkRecipe(id, title, ingredients, instructions, servings_default, version, history) ==
    [id |-> id, title |-> title, ingredients |-> ingredients,
     instructions |-> instructions, servings_default |-> servings_default,
     version |-> version, history |-> history, rating |-> NoRating]

\* a planned meal that forgets the version it was created with
MkMeal_VersionOne(id, date, recipe_id, recipe_version, servings) ==
    [id |-> id, date |-> date, recipe_id |-> recipe_id,
     recipe_version |-> 1, servings |-> servings, rating |-> NoRating]

MkMeal(id, date, recipe_id, recipe_version, servings) ==
    [id |-> id, date |-> date, recipe_id |-> recipe_id,
     recipe_version |-> recipe_version, servings |-> servings, rating |-> NoRating]

MkItem(id, name, quantity, unit, checked, manual) ==
    [id |-> id, item_name |-> name, quantity |-> quantity, unit |-> unit,
     checked |-> checked, is_manually_added |-> manual]

(***************************************************************************)
(* Identifiers.  `now` counts the handler calls; two calls are WindowDays   *)
(* milliseconds apart, so that the ids Date.now() + i, i < WindowDays,     *)
(* that one call of the plan generator gives out lie before the clock of   *)
(* the next call.  Date.now() + Math.random() lies in [Date.now(),         *)
(* Date.now() + 1).  An id is kept in units of 1/RandomLevels of a         *)
(* millisecond, so all of them are integers of the model.                  *)
(***************************************************************************)
\* for (let i = 0; i < 7; i++): the days one call of the generator visits
WindowDays == 7

DateNowId(t) == t * WindowDays * RandomLevels

(***************************************************************************)
(* mergeShoppingList                                                       *)
(***************************************************************************)
\* the filter also drops the manual items that are checked
manualItemsOf_Unchecked(currentList) ==
    SelectSeq(currentList, LAMBDA item : item.is_manually_added /\ ~item.checked)

manualItemsOf(currentList) == SelectSeq(currentList, LAMBDA item : item.is_manually_added)

\* a statusMap that keeps the first item of a key
RECURSIVE statusMapOf_FirstWins(_)
statusMapOf_FirstWins(currentList) ==
    IF currentList = <<>> THEN <<>>
    ELSE LET n == Len(currentList)
             item == currentList[n]
             rest == statusMapOf_FirstWins(SubSeq(currentList, 1, n - 1))
         IN IF \E i \in DOMAIN rest : rest[i].key = KeyOf(item)
            THEN rest
            ELSE Append(rest, [key |-> KeyOf(item), checked |-> item.checked])

\* statusMap after currentList.forEach: the last item of a key wins
RECURSIVE statusMapOf(_)
statusMapOf(currentList) ==
    IF currentList = <<>> THEN <<>>
    ELSE LET n == Len(currentList)
             item == currentList[n]
             rest == statusMapOf(SubSeq(currentList, 1, n - 1))
         IN IF \E i \in DOMAIN rest : rest[i].key = KeyOf(item)
            THEN [i \in DOMAIN rest |->
                     IF rest[i].key = KeyOf(item)
                     THEN [key |-> KeyOf(item), checked |-> item.checked]
                     ELSE rest[i]]
            ELSE Append(rest, [key |-> KeyOf(item), checked |-> item.checked])

\* an idMap that also takes the ids of manually added items
RECURSIVE idMapOf_AllItems(_)
idMapOf_AllItems(currentList) ==
    IF currentList = <<>> THEN <<>>
    ELSE LET n == Len(currentList)
             item == currentList[n]
             rest == idMapOf_AllItems(SubSeq(currentList, 1, n - 1))
         IN IF \E i \in DOMAIN rest : rest[i].key = KeyOf(item)
            THEN [i \in DOMAIN rest |->
                     IF rest[i].key = KeyOf(item)
                     THEN [key |-> KeyOf(item), id |-> item.id]
                     ELSE rest[i]]
            ELSE Append(rest, [key |-> KeyOf(item), id |-> item.id])

\* idMap after currentList.forEach: only items that are not manually added
RECURSIVE idMapOf(_)
idMapOf(currentList) ==
    IF currentList = <<>> THEN <<>>
    ELSE LET n == Len(currentList)
             item == currentList[n]
             rest == idMapOf(SubSeq(currentList, 1, n - 1))
         IN IF item.is_manually_added THEN rest
            ELSE IF \E i \in DOMAIN rest : rest[i].key = KeyOf(item)
            THEN [i \in DOMAIN rest |->
                     IF rest[i].key = KeyOf(item)
                     THEN [key |-> KeyOf(item), id |-> item.id]
                     ELSE rest[i]]
            ELSE Append(rest, [key |-> KeyOf(item), id |-> item.id])

MapHas(map, key) == \E i \in DOMAIN map : map[i].key = key

MapGet(map, key) == map[CHOOSE i \in DOMAIN map : map[i].key = key]

\* recipes.find(r => r.id === id): the first match
HasRecipe(rs, id) == \E i \in DOMAIN rs : rs[i].id = id

FindRecipe(rs, id) == rs[Min({i \in DOMAIN rs : rs[i].id = id})]

\* a resolution that always takes the current content of the recipe
targetRecipeOf_Current(meal, recipe) == recipe

\* recipe.history?.find(h => h.version === meal.recipe_version)
targetRecipeOf(meal, recipe) ==
    IF meal.recipe_version # 0 /\ meal.recipe_version # recipe.version
    THEN LET hits == {i \in DOMAIN recipe.history :
                         recipe.history[i].version = meal.recipe_version}
         IN IF hits # {} THEN recipe.history[Min(hits)] ELSE recipe
    ELSE recipe

\* a scale that ignores the servings of the meal
scaleOf_NoServings(meal, targetRecipe) ==
    FracDiv(Num(targetRecipe.servings_default), Num(targetRecipe.servings_default))

\* const servings = meal.servings || targetRecipe.servings_default;
\* const scale = servings / targetRecipe.servings_default;
scaleOf(meal, targetRecipe) ==
    LET servings == IF meal.servings # 0 THEN meal.servings
                    ELSE targetRecipe.servings_default
    IN FracDiv(Num(servings), Num(targetRecipe.servings_default))

\* the body of targetRecipe.ingredients.forEach for one ingredient
addIngredient(generatedMap, ing, scale, pantryStaples, statusMap, idMap) ==
    IF isStaple(ing, pantryStaples) THEN generatedMap
    ELSE LET key == KeyOf(ing)
             quantity == FracMul(Num(ing.quantity), scale)
         IN IF MapHas(generatedMap, key)
            THEN [i \in DOMAIN generatedMap |->
                     IF generatedMap[i].key = key
                     THEN [generatedMap[i] EXCEPT
                              !.value.quantity = FracAdd(@, quantity)]
                     ELSE generatedMap[i]]
            ELSE LET isChecked == IF MapHas(statusMap, key)
                                  THEN MapGet(statusMap, key).checked ELSE FALSE
                     existingId == IF MapHas(idMap, key)
                                   THEN MapGet(idMap, key).id ELSE 0
                 IN Append(generatedMap,
                        [key |-> key,
                         value |-> [item_name |-> ing.item_name,
                                    unit |-> ing.unit,
                                    quantity |-> quantity,
                                    id |-> existingId,
                                    checked |-> isChecked,
                                    is_manually_added |-> FALSE]])

RECURSIVE addIngredients(_, _, _, _, _, _)
addIngredients(generatedMap, ings, scale, pantryStaples, statusMap, idMap) ==
    IF ings = <<>> THEN generatedMap
    ELSE addIngredients(
             addIngredient(generatedMap, Head(ings), scale, pantryStaples,
                           statusMap, idMap),
             Tail(ings), scale, pantryStaples, statusMap, idMap)

\* a plan.forEach body that falls back to the first recipe of the catalog
\* when the recipe of the meal is not found
addMeal_FallbackFirst(generatedMap, meal, rs, pantryStaples, statusMap, idMap) ==
    LET recipe == IF HasRecipe(rs, meal.recipe_id)
                  THEN FindRecipe(rs, meal.recipe_id) ELSE rs[1]
        targetRecipe == targetRecipeOf(meal, recipe)
    IN addIngredients(generatedMap, targetRecipe.ingredients,
                      scaleOf(meal, targetRecipe), pantryStaples,
                      statusMap, idMap)

\* the body of plan.forEach for one meal
addMeal(generatedMap, meal, rs, pantryStaples, statusMap, idMap) ==
    IF ~HasRecipe(rs, meal.recipe_id) THEN generatedMap
    ELSE LET recipe == FindRecipe(rs, meal.recipe_id)
             targetRecipe == targetRecipeOf(meal, recipe)
         IN addIngredients(generatedMap, targetRecipe.ingredients,
                           scaleOf(meal, targetRecipe), pantryStaples,
                           statusMap, idMap)

RECURSIVE addMeals(_, _, _, _, _, _)
addMeals(generatedMap, meals, rs, pantryStaples, statusMap, idMap) ==
    IF meals = <<>> THEN generatedMap
    ELSE addMeals(
             addMeal(generatedMap, Head(meals), rs, pantryStaples,
                     statusMap, idMap),
             Tail(meals), rs, pantryStaples, statusMap, idMap)

\* The lines of generatedMap in insertion order.  A line whose key has no
\* (truthy) id in idMap carries id 0 until withFreshIds gives it its own.
generatedMapOf(currentList, meals, rs, pantryStaples) ==
    addMeals(<<>>, meals, rs, pantryStaples,
             statusMapOf(currentList), idMapOf(currentList))

\* the lines that evaluate Date.now() + Math.random()
randomCalls(generatedMap) == {i \in DOMAIN generatedMap : generatedMap[i].value.id = 0}

\* one outcome of Math.random() for each line that calls it
RandomDraws(generatedMap) == [randomCalls(generatedMap) -> 0..(RandomLevels - 1)]

\* id: existingId || (Date.now() + Math.random())
withFreshIds(generatedMap, t, rnd) ==
    [i \in DOMAIN generatedMap |->
        IF generatedMap[i].value.id # 0 THEN generatedMap[i].value
        ELSE [generatedMap[i].value EXCEPT !.id = DateNowId(t) + rnd[i]]]

\* return [...manualItems, ...Array.from(generatedMap.values())]
mergeShoppingList(currentList, meals, rs, pantryStaples, t, rnd) ==
    manualItemsOf(currentList)
        \o withFreshIds(generatedMapOf(currentList, meals, rs, pantryStaples), t, rnd)

(***************************************************************************)
(* The aggregation on its own: the previous list, the plan in scope, the   *)
(* catalog and the staples are drawn from bounded sets, and the list is    *)
(* replaced by the result of mergeShoppingList.                            *)
(***************************************************************************)
RecipeA1 == MkRecipe(1, "Stew", IngsA, InstrX, 4, 1, <<>>)

RecipeA2 == MkRecipe(1, "Stew", IngsB, InstrX, 2, 2, <<RecipeA1>>)

RecipeB1 == MkRecipe(2, "Soup", IngsC, InstrY, 2, 1, <<>>)

MergeCatalogs == {<<RecipeA2, RecipeB1>>, <<RecipeB1, RecipeA1>>}

\* recipe 3 is in no catalog; version 3 is in no history; servings 0 is unset
MergeMeals ==
    {MkMeal(10, 1, 1, 1, 8), MkMeal(12, 3, 2, 1, 3),
     MkMeal(13, 4, 3, 1, 4), MkMeal(14, 5, 1, 3, 0)}

ItemChicken == MkItem(2, Chicken, Num(1), gUnit, TRUE, TRUE)

ItemChickenLine == MkItem(3, chickenLower, Num(7), gUpper, FALSE, FALSE)

ItemSeaSaltLine == MkItem(4, SeaSalt, Num(2), tsp, TRUE, FALSE)

ItemRice == MkItem(5, Rice, Num(1), pc, FALSE, TRUE)

\* previous lists: manual items, generated lines, a manual item and a
\* generated line of one key in both orders
MergeLists ==
    {<<>>, <<ItemChicken>>, <<ItemChickenLine>>, <<ItemSeaSaltLine>>,
     <<ItemChicken, ItemRice>>, <<ItemRice, ItemChicken>>,
     <<ItemChickenLine, ItemSeaSaltLine>>,
     <<ItemChicken, ItemChickenLine>>, <<ItemChickenLine, ItemChicken>>,
     <<ItemRice, ItemSeaSaltLine, ItemChickenLine>>}

MergeStaples == {<<chickenLower>>, <<Salt>>, <<chickenLower, saltLower>>}

DistinctIds(list) == \A i, j \in DOMAIN list : i # j => list[i].id # list[j].id

InitMerge ==
    /\ variant = 1
    /\ recipes \in MergeCatalogs
    /\ plan \in {p \in SeqsUpTo(MergeMeals, MaxPlanLen) : DistinctIds(p)}
    /\ planHistory = <<>>
    /\ storedPlan = {}
    /\ springForward = 0
    /\ inFlight = {}
    /\ shoppingItems \in MergeLists
    /\ settings \in {[pantry_staples |-> st] : st \in MergeStaples}
    /\ now = 3

Aggregate ==
    /\ LET generatedMap == generatedMapOf(shoppingItems, plan, recipes,
                                          settings.pantry_staples)
       IN \E rnd \in RandomDraws(generatedMap) :
              shoppingItems' = mergeShoppingList(shoppingItems, plan, recipes,
                                                 settings.pantry_staples, now, rnd)
    /\ UNCHANGED <<variant, recipes, plan, planHistory, settings, now,
                 storedPlan, springForward, inFlight>>

NextMerge == Aggregate

SpecMerge == InitMerge /\ [][NextMerge]_vars

(***************************************************************************)
(* The aggregation over ingredients whose names and units hold a hyphen.   *)
(* The unit of an ingredient is free text in the recipe editor, as is the  *)
(* name.                                                                   *)
(***************************************************************************)
Tomato == <<"T","o","m","a","t","o">>

\* "Tomato-puree"
TomatoPuree == <<"T","o","m","a","t","o","-","p","u","r","e","e">>

can == <<"c","a","n">>

\* "puree-can"
pureeCan == <<"p","u","r","e","e","-","c","a","n">>

KeyIngredients ==
    {Ing(Tomato, 1, pureeCan), Ing(TomatoPuree, 2, can),
     Ing(Tomato, 3, can), Ing(TomatoPuree, 4, pureeCan)}

KeyCatalogs ==
    {<<MkRecipe(1, "Stew", ings, InstrX, sd, 1, <<>>)>> :
        ings \in SeqsUpTo(KeyIngredients, 2) \ {<<>>}, sd \in {2, 4}}

KeyMeals == {MkMeal(10, 1, 1, 1, 8), MkMeal(11, 2, 1, 1, 0), MkMeal(12, 3, 1, 1, 2)}

ItemTomato == MkItem(2, Tomato, Num(1), can, TRUE, TRUE)

InitKeys ==
    /\ variant = 1
    /\ recipes \in KeyCatalogs
    /\ plan \in {p \in SeqsUpTo(KeyMeals, MaxPlanLen) : DistinctIds(p)}
    /\ planHistory = <<>>
    /\ storedPlan = {}
    /\ springForward = 0
    /\ inFlight = {}
    /\ shoppingItems \in {<<>>, <<ItemTomato>>}
    /\ settings = [pantry_staples |-> <<Salt>>]
    /\ now = 3

SpecKeys == InitKeys /\ [][NextMerge]_vars

(***************************************************************************)
(* The App (src/unnamed/part_000).  The repository holds two variants of   *)
(* it: `variant` tells which one runs.  The definitions of the second one  *)
(* that share a name with the first carry the prefix App2_.  Every handler *)
(* call ends a millisecond after it began, so two calls never read the     *)
(* same Date.now().  The second variant keeps the stored shopping list and *)
(* the list in its state equal in every handler below, so shoppingItems    *)
(* stands for both.                                                        *)
(***************************************************************************)
\* String.prototype.trim
RECURSIVE trim(_)
trim(s) ==
    IF s = <<>> THEN s
    ELSE IF Head(s) = " " THEN trim(Tail(s))
    ELSE IF s[Len(s)] = " " THEN trim(SubSeq(s, 1, Len(s) - 1))
    ELSE s

\* JSON.stringify(recipe.ingredients): the fields of every ingredient in order
stringifyIngredients(ingredients) ==
    <<"[",
      [i \in DOMAIN ingredients |->
          <<"{", "item_name", ingredients[i].item_name,
            "quantity", ingredients[i].quantity,
            "unit", ingredients[i].unit, "}">>],
      "]">>

\* JSON.stringify(recipe.instructions): the steps in order
stringifyInstructions(instructions) ==
    <<"[", [i \in DOMAIN instructions |-> <<"\"", instructions[i], "\"">>], "]">>

\* a comparison that looks at the ingredients alone
contentChanged_IngredientsOnly(original, updated) ==
    stringifyIngredients(original.ingredients) # stringifyIngredients(updated.ingredients)

\* JSON.stringify(original.ingredients) !== JSON.stringify(updated.ingredients) ||
\* JSON.stringify(original.instructions) !== JSON.stringify(updated.instructions)
contentChanged(original, updated) ==
    \/ stringifyIngredients(original.ingredients) # stringifyIngredients(updated.ingredients)
    \/ stringifyInstructions(original.instructions)
           # stringifyInstructions(updated.instructions)

\* a versioning that forgets to put the original into the history
finalRecipe_HistoryKept(rs, updated) ==
    IF ~HasRecipe(rs, updated.id) THEN updated
    ELSE LET original == FindRecipe(rs, updated.id)
         IN IF contentChanged(original, updated)
            THEN [updated EXCEPT
                     !.version = (IF original.version # 0 THEN original.version ELSE 1) + 1,
                     !.history = original.history]
            ELSE updated

\* finalRecipe of handleUpdateRecipe, first variant:
\* version: (original.version || 1) + 1, history: [...(original.history || []), original]
finalRecipe(rs, updated) ==
    IF ~HasRecipe(rs, updated.id) THEN updated
    ELSE LET original == FindRecipe(rs, updated.id)
         IN IF contentChanged(original, updated)
            THEN [updated EXCEPT
                     !.version = (IF original.version # 0 THEN original.version ELSE 1) + 1,
                     !.history = Append(original.history, original)]
            ELSE updated

\* recipeToSave of handleUpdateRecipe, second variant:
\* snapshot = {...existing, history: []}, history: [snapshot, ...(existing.history || [])]
recipeToSave(rs, updatedRecipe) ==
    IF ~HasRecipe(rs, updatedRecipe.id) THEN updatedRecipe
    ELSE LET existing == FindRecipe(rs, updatedRecipe.id)
             snapshot == [existing EXCEPT !.history = <<>>]
         IN IF contentChanged(existing, updatedRecipe)
            THEN [updatedRecipe EXCEPT
                     !.version = (IF existing.version # 0 THEN existing.version ELSE 1) + 1,
                     !.history = <<snapshot>> \o existing.history]
            ELSE updatedRecipe

\* a history that keeps every snapshot
savePlanToHistory_NoSlice(prev, p) == Append(prev, p)

\* a history that is not written to
savePlanToHistory_NoPush(prev, p) == prev

\* setPlanHistory(prev => [...prev.slice(-9), [...plan]])
savePlanToHistory(prev, p) ==
    LET n == Len(prev)
    IN Append(SubSeq(prev, IF n > 9 THEN n - 8 ELSE 1, n), p)

\* newHistory.length > 50 ? newHistory.slice(newHistory.length - 50) : newHistory
savePlanHistory(prev, p) ==
    LET newHistory == Append(prev, p)
        n == Len(newHistory)
    IN IF n > 50 THEN SubSeq(newHistory, n - 49, n) ELSE newHistory

\* the plan store of IndexedDB, keyPath 'id': put replaces the record of the
\* same id, delete removes it
savePlanItem(store, item) == {m \in store : m.id # item.id} \cup {item}

deletePlanItem(store, id) == {m \in store : m.id # id}

RECURSIVE savePlanItems(_, _)
savePlanItems(store, items) ==
    IF items = <<>> THEN store
    ELSE savePlanItems(savePlanItem(store, Head(items)), Tail(items))

\* the day of `new Date()` at midnight; a date is the number of its day
Today == 1

\* the dates a meal is planned for: yesterday and today
Dates == {Today - 1, Today}

\* syncShoppingList: the stored list merged with the meals from today onwards
syncShoppingList(currentPlan, currentRecipes, currentSettings) ==
    LET futurePlan == SelectSeq(currentPlan, LAMBDA p : p.date >= Today)
        generatedMap == generatedMapOf(shoppingItems, futurePlan, currentRecipes,
                                       currentSettings.pantry_staples)
    IN \E rnd \in RandomDraws(generatedMap) :
           shoppingItems' = mergeShoppingList(shoppingItems, futurePlan, currentRecipes,
                                              currentSettings.pantry_staples, now, rnd)

\* what the recipe form hands over: a recipe without id, images and version
NewRecipeData ==
    {[title |-> "Soup", ingredients |-> IngsC, instructions |-> InstrY,
      servings_default |-> 2]}

\* the ingredient lists and the names an edit puts in
EditIngredientLists == {IngsA, IngsB}

NewNames == {Rice}

\* RecipeDetail: editedRecipe is the stored recipe with a field edited
EditedCopies(recipe) ==
    {recipe}
        \cup {[recipe EXCEPT !.ingredients = x] : x \in EditIngredientLists}
        \cup {[recipe EXCEPT !.instructions = y] : y \in InstructionLists}
        \cup {[recipe EXCEPT !.title = t] : t \in Titles}

\* RecipeDetail.saveEdit: onUpdateRecipe(editedRecipe).  handleChangeVersion
\* makes a snapshot of the history the viewed recipe, which the edit form
\* then holds and saves.
Proposals(recipe) == EditedCopies(recipe) \cup Range(recipe.history)

handleAddRecipe(recipeData) ==
    /\ variant = 1
    /\ now < MaxNow
    /\ Len(recipes) < MaxRecipes
    /\ recipes' = <<MkRecipe(DateNowId(now), recipeData.title, recipeData.ingredients,
                             recipeData.instructions, recipeData.servings_default,
                             1, <<>>)>> \o recipes
    /\ now' = now + 1
    /\ UNCHANGED <<variant, plan, planHistory, shoppingItems, settings,
                 storedPlan, springForward, inFlight>>

handleUpdateRecipe(updated) ==
    /\ variant = 1
    /\ now < MaxNow
    /\ recipes' = [i \in DOMAIN recipes |->
                      IF recipes[i].id = updated.id THEN finalRecipe(recipes, updated)
                      ELSE recipes[i]]
    /\ now' = now + 1
    /\ UNCHANGED <<variant, plan, planHistory, shoppingItems, settings,
                 storedPlan, springForward, inFlight>>

handleUpdateAllRecipes(newRecipes) ==
    /\ variant = 1
    /\ recipes' = newRecipes
    /\ UNCHANGED shoppingItems

handleAddMeal(date, recipeId) ==
    /\ variant = 1
    /\ now < MaxNow
    /\ Len(plan) < MaxPlanLen
    /\ planHistory' = savePlanToHistory(planHistory, plan)
    /\ IF ~HasRecipe(recipes, recipeId)
       THEN /\ plan' = plan
            /\ storedPlan' = storedPlan
       ELSE LET recipe == FindRecipe(recipes, recipeId)
                newItem == MkMeal(DateNowId(now), date, recipeId,
                                  recipe.version, recipe.servings_default)
            IN /\ plan' = Append(plan, newItem)
               /\ storedPlan' = savePlanItem(storedPlan, newItem)
    /\ now' = now + 1
    /\ UNCHANGED <<variant, recipes, shoppingItems, settings, springForward, inFlight>>

App2_handleAddRecipe(newRecipeData) ==
    /\ variant = 2
    /\ now < MaxNow
    /\ Len(recipes) < MaxRecipes
    /\ recipes' = <<MkRecipe(DateNowId(now), newRecipeData.title,
                             newRecipeData.ingredients, newRecipeData.instructions,
                             newRecipeData.servings_default, 1, <<>>)>> \o recipes
    /\ now' = now + 1
    /\ UNCHANGED <<variant, plan, planHistory, shoppingItems, settings,
                 storedPlan, springForward, inFlight>>

App2_handleUpdateRecipe(updatedRecipe) ==
    /\ variant = 2
    /\ now < MaxNow
    /\ LET newRecipes == [i \in DOMAIN recipes |->
                             IF recipes[i].id = updatedRecipe.id
                             THEN recipeToSave(recipes, updatedRecipe)
                             ELSE recipes[i]]
       IN /\ recipes' = newRecipes
          /\ syncShoppingList(plan, newRecipes, settings)
    /\ now' = now + 1
    /\ UNCHANGED <<variant, plan, planHistory, settings, storedPlan, springForward, inFlight>>

handleBulkUpdateRecipes(updatedRecipes) ==
    /\ variant = 2
    /\ LET newRecipesFull == [i \in DOMAIN recipes |->
                                 IF HasRecipe(updatedRecipes, recipes[i].id)
                                 THEN FindRecipe(updatedRecipes, recipes[i].id)
                                 ELSE recipes[i]]
       IN /\ recipes' = newRecipesFull
          /\ syncShoppingList(plan, newRecipesFull, settings)

App2_handleAddMeal(date, recipeId) ==
    /\ variant = 2
    /\ now < MaxNow
    /\ LET newMeal ==
               IF HasRecipe(recipes, recipeId)
               THEN LET recipe == FindRecipe(recipes, recipeId)
                    IN MkMeal(DateNowId(now), date, recipeId,
                              IF recipe.version # 0 THEN recipe.version ELSE 1,
                              recipe.servings_default)
               ELSE MkMeal(DateNowId(now), date, recipeId, 1, 4)
           newPlan == Append(SelectSeq(plan, LAMBDA p : p.date # date), newMeal)
       IN /\ Len(newPlan) <= MaxPlanLen
          /\ planHistory' = savePlanHistory(planHistory, plan)
          /\ plan' = newPlan
          /\ storedPlan' =
                 savePlanItem(
                     IF \E i \in DOMAIN plan : plan[i].date = date
                     THEN deletePlanItem(storedPlan,
                              plan[Min({i \in DOMAIN plan : plan[i].date = date})].id)
                     ELSE storedPlan,
                     newMeal)
          /\ syncShoppingList(newPlan, recipes, settings)
    /\ now' = now + 1
    /\ UNCHANGED <<variant, recipes, settings, springForward, inFlight>>

\* SettingsView: the keys of uniqueIngredients, item_name.toLowerCase().trim()
uniqueIngredients(rs) ==
    {trim(toLowerCase(rs[i].ingredients[j].item_name)) :
        <<i, j>> \in {q \in (DOMAIN rs) \X (1..Max({Len(l) : l \in IngredientLists})) :
                         q[2] <= Len(rs[q[1]].ingredients)}}

\* the recipes handleEditIngSave pushes: those that use the ingredient,
\* with the ingredient renamed
updatedRecipesOf(rs, oldKey, newName) ==
    LET modified(r) == \E j \in DOMAIN r.ingredients :
                           trim(toLowerCase(r.ingredients[j].item_name)) = oldKey
        renamed(r) == [r EXCEPT !.ingredients =
                          [j \in DOMAIN r.ingredients |->
                              IF trim(toLowerCase(r.ingredients[j].item_name)) = oldKey
                              THEN [r.ingredients[j] EXCEPT !.item_name = newName]
                              ELSE r.ingredients[j]]]
        pushed == SelectSeq(rs, modified)
    IN [i \in DOMAIN pushed |-> renamed(pushed[i])]

\* SettingsView.handleEditIngSave, which calls onUpdateRecipes:
\* handleUpdateAllRecipes in the first variant, handleBulkUpdateRecipes in
\* the second
handleEditIngSave(oldKey, editIngName) ==
    /\ now < MaxNow
    /\ LET newName == trim(editIngName)
           updatedRecipes == updatedRecipesOf(recipes, oldKey, newName)
       IN /\ newName # <<>>
          /\ Len(updatedRecipes) > 0
          /\ \/ handleUpdateAllRecipes(updatedRecipes)
             \/ handleBulkUpdateRecipes(updatedRecipes)
    /\ now' = now + 1
    /\ UNCHANGED <<variant, plan, planHistory, settings, storedPlan, springForward, inFlight>>

\* the state loaded from a store that holds one recipe, no meal, an empty
\* shopping list and the staple Salt
Init ==
    /\ variant \in {1, 2}
    /\ recipes = <<RecipeA1>>
    /\ plan = <<>>
    /\ planHistory = <<>>
    /\ storedPlan = {}
    /\ springForward = 0
    /\ inFlight = {}
    /\ shoppingItems = <<>>
    /\ settings = [pantry_staples |-> <<Salt>>]
    /\ now = 1

Next ==
    \/ \E recipeData \in NewRecipeData : handleAddRecipe(recipeData)
    \/ \E i \in DOMAIN recipes : \E updated \in Proposals(recipes[i]) :
           handleUpdateRecipe(updated)
    \/ \E date \in Dates : \E i \in DOMAIN recipes : handleAddMeal(date, recipes[i].id)
    \/ \E newRecipeData \in NewRecipeData : App2_handleAddRecipe(newRecipeData)
    \/ \E i \in DOMAIN recipes : \E updatedRecipe \in Proposals(recipes[i]) :
           App2_handleUpdateRecipe(updatedRecipe)
    \/ \E date \in Dates : \E i \in DOMAIN recipes :
           App2_handleAddMeal(date, recipes[i].id)
    \/ \E oldKey \in uniqueIngredients(recipes) : \E editIngName \in NewNames :
           handleEditIngSave(oldKey, editIngName)

Spec == Init /\ [][Next]_vars

(***************************************************************************)
(* The plan of the first App variant: generator, moves, removal, rating,   *)
(* servings and undo.                                                      *)
(***************************************************************************)
\* d = new Date(dateStr); d.setDate(d.getDate() + n);
\* d.toISOString().split('T')[0].  new Date(dateStr) is midnight UTC of the
\* day, setDate moves the local calendar day and keeps the local time of
\* day, toISOString gives the day in UTC.  springForward is the day on
\* which the local clocks are put forward (0: no such day): from a day up
\* to it to a day after it, the same local time is an hour earlier in UTC,
\* which is the evening of the day before.
addDays(dateStr, n) ==
    IF springForward # 0 /\ dateStr <= springForward /\ dateStr + n > springForward
    THEN dateStr + n - 1
    ELSE dateStr + n

\* scores as fractions <<numerator, denominator>> with a positive denominator
ScoreAdd(a, b) == <<a[1] * b[2] + b[1] * a[2], a[2] * b[2]>>

ScoreLess(a, b) == a[1] * b[2] < b[1] * a[2]

RECURSIVE SumRatings(_, _)
SumRatings(meals, js) ==
    IF js = {} THEN 0
    ELSE LET j == CHOOSE x \in js : TRUE
         IN meals[j].rating + SumRatings(meals, js \ {j})

\* the average rating of the rated meals of the recipe, else the rating of
\* the recipe, else 3.5
avgRating(newPlan, recipe) ==
    LET history == {j \in DOMAIN newPlan :
                       newPlan[j].recipe_id = recipe.id
                       /\ hasRatingValue(newPlan[j].rating)}
    IN IF history # {} THEN <<SumRatings(newPlan, history), Cardinality(history)>>
       ELSE IF hasRatingValue(recipe.rating) THEN <<recipe.rating, 1>>
       ELSE <<7, 2>>

\* the days since the last meal of the recipe before dateStr, 100 if none
daysSinceOf(newPlan, recipe, dateStr) ==
    LET eatenDates == {newPlan[j].date : j \in {x \in DOMAIN newPlan :
                          newPlan[x].recipe_id = recipe.id /\ newPlan[x].date < dateStr}}
    IN IF eatenDates = {} THEN 100 ELSE dateStr - Max(eatenDates)

\* a penalty that treats the day before like two days before
recencyPenalty_NoDayBefore(daysSince) ==
    IF daysSince <= 2 THEN 5000
    ELSE IF daysSince <= 5 THEN 2000
    ELSE IF daysSince <= 7 THEN 500
    ELSE 0

recencyPenalty(daysSince) ==
    IF daysSince <= 1 THEN 10000
    ELSE IF daysSince <= 2 THEN 5000
    ELSE IF daysSince <= 5 THEN 2000
    ELSE IF daysSince <= 7 THEN 500
    ELSE 0

\* Math.random() * 10 for one outcome of Math.random()
jitterOf(level) == <<10 * level, RandomLevels>>

\* (avgRating * 10) + (Math.min(daysSince, 30) * 2) and the penalty
baseScoreOf(newPlan, recipe, dateStr) ==
    LET daysSince == daysSinceOf(newPlan, recipe, dateStr)
        avg == avgRating(newPlan, recipe)
    IN ScoreAdd(<<avg[1] * 10, avg[2]>>,
                <<Min({daysSince, 30}) * 2 - recencyPenalty(daysSince), 1>>)

\* score += Math.random() * 10
scoreOf(baseScore, level) == ScoreAdd(baseScore, jitterOf(level))

\* scoredRecipes.sort((a, b) => b.score - a.score)[0]: the first recipe of
\* the highest score
firstOfHighest(scores) ==
    Min({k \in DOMAIN scores :
            \A j \in DOMAIN scores : ~ScoreLess(scores[k], scores[j])})

\* the recipes the draws of Math.random() can select for the date
bestMatches(newPlan, rs, dateStr) ==
    LET base == [k \in DOMAIN rs |-> baseScoreOf(newPlan, rs[k], dateStr)]
    IN {firstOfHighest([k \in DOMAIN rs |-> scoreOf(base[k], levels[k])]) :
           levels \in [DOMAIN rs -> 0..(RandomLevels - 1)]}

\* a generator that also fills the days before today
skipDate_NoPastCheck(newPlan, dateStr) ==
    \E j \in DOMAIN newPlan : newPlan[j].date = dateStr

\* if (dateStr < todayStr) continue;
\* if (newPlan.some(p => p.date === dateStr)) continue;
skipDate(newPlan, dateStr) ==
    \/ dateStr < Today
    \/ \E j \in DOMAIN newPlan : newPlan[j].date = dateStr

\* the loop of handleGeneratePlan from day i on: the plans it can end with
RECURSIVE fillDays(_, _, _, _, _)
fillDays(newPlan, rs, start, i, t) ==
    IF i = WindowDays THEN {newPlan}
    ELSE LET dateStr == addDays(start, i)
         IN IF \/ skipDate(newPlan, dateStr)
               \/ Len(rs) = 0
            THEN fillDays(newPlan, rs, start, i + 1, t)
            ELSE UNION {LET selectedRecipe == FindRecipe(rs, rs[k].id)
                            newItem == MkMeal(DateNowId(t) + i * RandomLevels, dateStr,
                                              selectedRecipe.id, selectedRecipe.version,
                                              selectedRecipe.servings_default)
                        IN fillDays(Append(newPlan, newItem), rs, start, i + 1, t) :
                        k \in bestMatches(newPlan, rs, dateStr)}

handleGeneratePlan(startDateStr) ==
    /\ variant = 1
    /\ now < MaxNow
    /\ planHistory' = savePlanToHistory(planHistory, plan)
    /\ \E newPlan \in fillDays(plan, recipes, startDateStr, 0, now) :
           /\ plan' = newPlan
           /\ storedPlan' = savePlanItems(storedPlan,
                                SubSeq(newPlan, Len(plan) + 1, Len(newPlan)))
    /\ now' = now + 1
    /\ UNCHANGED <<variant, recipes, shoppingItems, settings, springForward, inFlight>>

handleUndoPlan ==
    /\ variant = 1
    /\ Len(planHistory) # 0
    /\ LET previous == planHistory[Len(planHistory)]
       IN /\ planHistory' = SubSeq(planHistory, 1, Len(planHistory) - 1)
          /\ plan' = previous
          /\ storedPlan' = savePlanItems({}, previous)
    /\ UNCHANGED <<variant, recipes, shoppingItems, settings, now, springForward, inFlight>>

\* plan.find(p => ...): the first meal of the date, of the id
withDate(p, date) == {i \in DOMAIN p : p[i].date = date}

withId(p, id) == {i \in DOMAIN p : p[i].id = id}

handleMoveMeal(date, direction) ==
    /\ variant = 1
    /\ now < MaxNow
    /\ withDate(plan, date) # {}
    /\ LET current == plan[Min(withDate(plan, date))]
           targetDate == addDays(date, IF direction = "down" THEN 1 ELSE -1)
           hasTarget == withDate(plan, targetDate) # {}
           target == plan[Min(withDate(plan, targetDate))]
       IN /\ planHistory' = savePlanToHistory(planHistory, plan)
          /\ plan' = [i \in DOMAIN plan |->
                         IF plan[i].id = current.id
                         THEN [plan[i] EXCEPT !.date = targetDate]
                         ELSE IF hasTarget /\ plan[i].id = target.id
                         THEN [plan[i] EXCEPT !.date = date]
                         ELSE plan[i]]
          /\ storedPlan' =
                 LET saved == savePlanItem(storedPlan,
                                           [current EXCEPT !.date = targetDate])
                 IN IF hasTarget
                    THEN savePlanItem(saved, [target EXCEPT !.date = date])
                    ELSE saved
    /\ now' = now + 1
    /\ UNCHANGED <<variant, recipes, shoppingItems, settings, springForward, inFlight>>

handleReorderMeal(mealId, targetDate) ==
    /\ variant = 1
    /\ now < MaxNow
    /\ withId(plan, mealId) # {}
    /\ LET meal == plan[Min(withId(plan, mealId))]
           hasTarget == withDate(plan, targetDate) # {}
           targetMeal == plan[Min(withDate(plan, targetDate))]
       IN /\ meal.date # targetDate
          /\ planHistory' = savePlanToHistory(planHistory, plan)
          /\ plan' = [i \in DOMAIN plan |->
                         IF plan[i].id = mealId
                         THEN [plan[i] EXCEPT !.date = targetDate]
                         ELSE IF hasTarget /\ plan[i].id = targetMeal.id
                         THEN [plan[i] EXCEPT !.date = meal.date]
                         ELSE plan[i]]
          /\ storedPlan' =
                 LET saved == savePlanItem(storedPlan,
                                           [meal EXCEPT !.date = targetDate])
                 IN IF hasTarget
                    THEN savePlanItem(saved, [targetMeal EXCEPT !.date = meal.date])
                    ELSE saved
    /\ now' = now + 1
    /\ UNCHANGED <<variant, recipes, shoppingItems, settings, springForward, inFlight>>

handleRemoveMeal(date) ==
    /\ variant = 1
    /\ now < MaxNow
    /\ withDate(plan, date) # {}
    /\ planHistory' = savePlanToHistory(planHistory, plan)
    /\ plan' = SelectSeq(plan, LAMBDA p : p.date # date)
    /\ storedPlan' = deletePlanItem(storedPlan, plan[Min(withDate(plan, date))].id)
    /\ now' = now + 1
    /\ UNCHANGED <<variant, recipes, shoppingItems, settings, springForward, inFlight>>

handleRateMeal(id, rating) ==
    /\ variant = 1
    /\ now < MaxNow
    /\ LET updatedPlan == [i \in DOMAIN plan |->
                              IF plan[i].id = id THEN [plan[i] EXCEPT !.rating = rating]
                              ELSE plan[i]]
       IN /\ plan' = updatedPlan
          /\ storedPlan' = IF withId(updatedPlan, id) # {}
                           THEN savePlanItem(storedPlan,
                                             updatedPlan[Min(withId(updatedPlan, id))])
                           ELSE storedPlan
    /\ now' = now + 1
    /\ UNCHANGED <<variant, recipes, planHistory, shoppingItems, settings, springForward, inFlight>>

handleUpdateServings(mealId, servings) ==
    /\ variant = 1
    /\ now < MaxNow
    /\ LET updatedPlan == [i \in DOMAIN plan |->
                              IF plan[i].id = mealId
                              THEN [plan[i] EXCEPT !.servings = servings]
                              ELSE plan[i]]
       IN /\ plan' = updatedPlan
          /\ storedPlan' = IF withId(updatedPlan, mealId) # {}
                           THEN savePlanItem(storedPlan,
                                             updatedPlan[Min(withId(updatedPlan, mealId))])
                           ELSE storedPlan
    /\ now' = now + 1
    /\ UNCHANGED <<variant, recipes, planHistory, shoppingItems, settings, springForward, inFlight>>

(***************************************************************************)
(* The plan of the second App variant.  Every handler that changes the     *)
(* plan ends with syncShoppingList.                                        *)
(***************************************************************************)
Reverse(seq) == [i \in DOMAIN seq |-> seq[Len(seq) + 1 - i]]

\* generateInitialPlan: one meal for each of the seven days from today on,
\* the recipes in turn
generateInitialPlan(rs, t) ==
    [k \in 1..WindowDays |->
        LET i == k - 1
            recipe == rs[(i % Len(rs)) + 1]
        IN MkMeal(DateNowId(t) + i * RandomLevels, Today + i, recipe.id,
                  IF recipe.version # 0 THEN recipe.version ELSE 1,
                  recipe.servings_default)]

RECURSIVE deletePlanItems(_, _)
deletePlanItems(store, items) ==
    IF items = <<>> THEN store
    ELSE deletePlanItems(deletePlanItem(store, Head(items).id), Tail(items))

handleUndo ==
    /\ variant = 2
    /\ Len(planHistory) # 0
    /\ LET previousPlan == planHistory[Len(planHistory)]
       IN /\ planHistory' = SubSeq(planHistory, 1, Len(planHistory) - 1)
          /\ storedPlan' = savePlanItems({}, previousPlan)
          /\ plan' = previousPlan
          /\ syncShoppingList(previousPlan, recipes, settings)
    /\ UNCHANGED <<variant, recipes, settings, now, springForward, inFlight>>

\* with an empty catalog generateInitialPlan reads recipes[NaN].id and
\* throws: the history entry is written and the meals from today on are
\* deleted from the store, the plan in memory stays
handleRegeneratePlan ==
    /\ variant = 2
    /\ now < MaxNow
    /\ planHistory' = savePlanHistory(planHistory, plan)
    /\ LET historyItems == SelectSeq(plan, LAMBDA p : p.date < Today)
           futureItemsToRemove == SelectSeq(plan, LAMBDA p : p.date >= Today)
       IN IF Len(recipes) = 0
          THEN /\ storedPlan' = deletePlanItems(storedPlan, futureItemsToRemove)
               /\ UNCHANGED <<plan, shoppingItems>>
          ELSE LET newFutureItems == generateInitialPlan(Reverse(recipes), now)
                   combinedPlan == historyItems \o newFutureItems
               IN /\ storedPlan' =
                         savePlanItems(deletePlanItems(storedPlan, futureItemsToRemove),
                                       newFutureItems)
                  /\ plan' = combinedPlan
                  /\ syncShoppingList(combinedPlan, recipes, settings)
    /\ now' = now + 1
    /\ UNCHANGED <<variant, recipes, settings, springForward, inFlight>>

App2_handleRateMeal(id, rating) ==
    /\ variant = 2
    /\ now < MaxNow
    /\ IF withId(plan, id) # {}
       THEN LET updated == [plan[Min(withId(plan, id))] EXCEPT !.rating = rating]
            IN /\ storedPlan' = savePlanItem(storedPlan, updated)
               /\ plan' = [i \in DOMAIN plan |->
                              IF plan[i].id = id THEN updated ELSE plan[i]]
       ELSE UNCHANGED <<plan, storedPlan>>
    /\ now' = now + 1
    /\ UNCHANGED <<variant, recipes, planHistory, shoppingItems, settings, springForward, inFlight>>

App2_handleRemoveMeal(date) ==
    /\ variant = 2
    /\ now < MaxNow
    /\ planHistory' = savePlanHistory(planHistory, plan)
    /\ IF withDate(plan, date) # {}
       THEN LET newPlan == SelectSeq(plan, LAMBDA p : p.date # date)
            IN /\ storedPlan' =
                      deletePlanItem(storedPlan, plan[Min(withDate(plan, date))].id)
               /\ plan' = newPlan
               /\ syncShoppingList(newPlan, recipes, settings)
       ELSE UNCHANGED <<plan, storedPlan, shoppingItems>>
    /\ now' = now + 1
    /\ UNCHANGED <<variant, recipes, settings, springForward, inFlight>>

App2_handleUpdateServings(mealId, newServings) ==
    /\ variant = 2
    /\ now < MaxNow
    /\ planHistory' = savePlanHistory(planHistory, plan)
    /\ IF withId(plan, mealId) # {}
       THEN LET updated == [plan[Min(withId(plan, mealId))] EXCEPT
                               !.servings = newServings]
                newPlan == [i \in DOMAIN plan |->
                               IF plan[i].id = mealId THEN updated ELSE plan[i]]
            IN /\ storedPlan' = savePlanItem(storedPlan, updated)
               /\ plan' = newPlan
               /\ syncShoppingList(newPlan, recipes, settings)
       ELSE UNCHANGED <<plan, storedPlan, shoppingItems>>
    /\ now' = now + 1
    /\ UNCHANGED <<variant, recipes, settings, springForward, inFlight>>

App2_handleMoveMeal(date, direction) ==
    /\ variant = 2
    /\ now < MaxNow
    /\ planHistory' = savePlanHistory(planHistory, plan)
    /\ IF withDate(plan, date) = {}
       THEN UNCHANGED <<plan, storedPlan, shoppingItems>>
       ELSE LET idx == Min(withDate(plan, date))
                targetDate == addDays(date, IF direction = "down" THEN 1 ELSE -1)
                hasTarget == withDate(plan, targetDate) # {}
                targetIdx == Min(withDate(plan, targetDate))
                itemA == [plan[idx] EXCEPT !.date = targetDate]
                itemB == [plan[targetIdx] EXCEPT !.date = date]
                currentPlan == IF hasTarget
                               THEN [[plan EXCEPT ![idx] = itemA] EXCEPT ![targetIdx] = itemB]
                               ELSE [plan EXCEPT ![idx] = itemA]
            IN /\ storedPlan' = IF hasTarget
                                THEN savePlanItem(savePlanItem(storedPlan, itemA), itemB)
                                ELSE savePlanItem(storedPlan, itemA)
               /\ plan' = currentPlan
               /\ syncShoppingList(currentPlan, recipes, settings)
    /\ now' = now + 1
    /\ UNCHANGED <<variant, recipes, settings, springForward, inFlight>>

App2_handleReorderMeal(mealId, targetDate) ==
    /\ variant = 2
    /\ now < MaxNow
    /\ planHistory' = savePlanHistory(planHistory, plan)
    /\ IF withId(plan, mealId) = {}
       THEN UNCHANGED <<plan, storedPlan, shoppingItems>>
       ELSE LET draggingIdx == Min(withId(plan, mealId))
                hasTarget == withDate(plan, targetDate) # {}
                targetIdx == Min(withDate(plan, targetDate))
                originalDate == plan[draggingIdx].date
                draggingItem == [plan[draggingIdx] EXCEPT !.date = targetDate]
                targetItem == [plan[targetIdx] EXCEPT !.date = originalDate]
                currentPlan ==
                    IF hasTarget
                    THEN [[plan EXCEPT ![draggingIdx] = draggingItem] EXCEPT
                             ![targetIdx] = targetItem]
                    ELSE [plan EXCEPT ![draggingIdx] = draggingItem]
            IN /\ storedPlan' =
                      IF hasTarget
                      THEN savePlanItem(savePlanItem(storedPlan, draggingItem), targetItem)
                      ELSE savePlanItem(storedPlan, draggingItem)
               /\ plan' = currentPlan
               /\ syncShoppingList(currentPlan, recipes, settings)
    /\ now' = now + 1
    /\ UNCHANGED <<variant, recipes, settings, springForward, inFlight>>

(***************************************************************************)
(* The plan handlers of both variants together, with the calls that the    *)
(* views make.                                                             *)
(***************************************************************************)
\* days[0] of PlanView: the first day of the week on view
StartDates == {Today - 1, Today}

\* the days of the week on view that the calls name
PlanDates == {Today, Today + 1}

Ratings == {2}

ServingsChoices == {6}

Directions == {"up", "down"}

RecipeB5 == [RecipeB1 EXCEPT !.rating = 5]

\* the meals a call refers to by id: the first ones of the plan
MealIds == {plan[i].id : i \in {j \in DOMAIN plan : j <= MaxPlanLen}}

\* RecipeDetail.saveEdit with the ingredients edited
IngredientEdits(recipe) ==
    {[recipe EXCEPT !.ingredients = IF recipe.ingredients = IngsC THEN IngsB ELSE IngsC]}

InitPlan ==
    /\ variant \in {1, 2}
    /\ recipes \in {<<>>, <<RecipeA2, RecipeB5>>}
    /\ plan = <<>>
    /\ planHistory = <<>>
    /\ storedPlan = {}
    /\ springForward \in {0, Today + 2}
    /\ inFlight = {}
    \* the week with the clock change is followed with the first variant's
    \* generator and a catalog to draw from
    /\ (springForward # 0 => variant = 1 /\ recipes # <<>>)
    /\ shoppingItems = <<>>
    /\ settings = [pantry_staples |-> <<chickenLower, saltLower>>]
    /\ now = 1

NextPlan ==
    \/ \E date \in Dates : \E i \in DOMAIN recipes : handleAddMeal(date, recipes[i].id)
    \/ \E startDateStr \in StartDates : handleGeneratePlan(startDateStr)
    \/ \E date \in PlanDates : \E direction \in Directions :
           handleMoveMeal(date, direction)
    \/ \E mealId \in MealIds : \E targetDate \in PlanDates :
           handleReorderMeal(mealId, targetDate)
    \/ \E date \in PlanDates : handleRemoveMeal(date)
    \/ \E id \in MealIds : \E rating \in Ratings : handleRateMeal(id, rating)
    \/ \E mealId \in MealIds : \E servings \in ServingsChoices :
           handleUpdateServings(mealId, servings)
    \/ \E i \in DOMAIN recipes : \E updated \in IngredientEdits(recipes[i]) :
           handleUpdateRecipe(updated)
    \/ handleUndoPlan
    \/ \E date \in Dates : \E i \in DOMAIN recipes :
           App2_handleAddMeal(date, recipes[i].id)
    \/ handleRegeneratePlan
    \/ \E date \in PlanDates : \E direction \in Directions :
           App2_handleMoveMeal(date, direction)
    \/ \E mealId \in MealIds : \E targetDate \in PlanDates :
           App2_handleReorderMeal(mealId, targetDate)
    \/ \E date \in PlanDates : App2_handleRemoveMeal(date)
    \/ \E id \in MealIds : \E rating \in Ratings : App2_handleRateMeal(id, rating)
    \/ \E mealId \in MealIds : \E newServings \in ServingsChoices :
           App2_handleUpdateServings(mealId, newServings)
    \/ \E i \in DOMAIN recipes : \E updatedRecipe \in IngredientEdits(recipes[i]) :
           App2_handleUpdateRecipe(updatedRecipe)
    \/ handleUndo

SpecPlan == InitPlan /\ [][NextPlan]_vars

(***************************************************************************)
(* The shopping list of the first App variant.  shoppingItems holds the    *)
(* persisted items; ShopView shows the aggregation of them with the plan   *)
(* of the selected week, computed anew for every rendering.                *)
(***************************************************************************)
\* visiblePlan of ShopView with weekOffset 0: the meals of today and the
\* six days after it
visiblePlan(p) == SelectSeq(p, LAMBDA m : m.date >= Today /\ m.date < Today + 7)

\* ShopView.visibleItems before the ids of the new lines are drawn
visibleMap == generatedMapOf(shoppingItems, visiblePlan(plan), recipes,
                             settings.pantry_staples)

\* ShopView.visibleItems for one outcome of the random draws over the
\* lines g of visibleMap
visibleItems(g, rnd) == manualItemsOf(shoppingItems) \o withFreshIds(g, now, rnd)

handleToggleItem(item) ==
    /\ variant = 1
    /\ now < MaxNow
    /\ LET hits == {i \in DOMAIN shoppingItems : shoppingItems[i].id = item.id}
       IN IF hits # {}
          THEN shoppingItems' =
                   [shoppingItems EXCEPT ![Min(hits)].checked = ~@]
          ELSE shoppingItems' =
                   Append(shoppingItems, [item EXCEPT !.checked = ~@])
    /\ now' = now + 1
    /\ UNCHANGED <<variant, recipes, plan, planHistory, settings,
                   storedPlan, springForward, inFlight>>

handleAddShoppingItem(name) ==
    /\ variant = 1
    /\ now < MaxNow
    /\ shoppingItems' =
           Append(shoppingItems, MkItem(DateNowId(now), name, Num(1), pc, FALSE, TRUE))
    /\ now' = now + 1
    /\ UNCHANGED <<variant, recipes, plan, planHistory, settings,
                   storedPlan, springForward, inFlight>>

\* handleClearChecked with toKeep and toDelete exchanged
handleClearChecked_KeepsChecked ==
    /\ variant = 1
    /\ now < MaxNow
    /\ shoppingItems' = SelectSeq(shoppingItems, LAMBDA i : i.checked)
    /\ now' = now + 1
    /\ UNCHANGED <<variant, recipes, plan, planHistory, settings,
                   storedPlan, springForward, inFlight>>

handleClearChecked ==
    /\ variant = 1
    /\ now < MaxNow
    /\ shoppingItems' = SelectSeq(shoppingItems, LAMBDA i : ~i.checked)
    /\ now' = now + 1
    /\ UNCHANGED <<variant, recipes, plan, planHistory, settings,
                   storedPlan, springForward, inFlight>>

\* what handleAdd of ShopView passes on: newItemName.trim(), if not empty
riceLower == <<"r","i","c","e">>

NewItemNames == {riceLower, <<" ">> \o Salt}

IngsP == <<Ing(Rice, 1, pc), Ing(Chicken, 300, gUnit)>>

RecipeP1 == MkRecipe(3, "Pilaf", IngsP, InstrX, 2, 1, <<>>)

\* a catalog of one recipe, a meal of it today, and nothing persisted in
\* the shopping store
InitShop ==
    /\ variant = 1
    /\ recipes = <<RecipeP1>>
    /\ plan \in {<<MkMeal(1, Today, 3, 1, 2)>>,
                 <<MkMeal(1, Today, 3, 1, 2), MkMeal(2, Today + 1, 3, 1, 4)>>}
    /\ planHistory = <<>>
    /\ storedPlan = Range(plan)
    /\ springForward = 0
    /\ inFlight = {}
    /\ shoppingItems = <<>>
    /\ settings = [pantry_staples |-> <<Salt>>]
    /\ now = 1

NextShop ==
    \/ LET g == visibleMap
       IN \E rnd \in RandomDraws(g) :
              LET shown == visibleItems(g, rnd)
              IN \E i \in DOMAIN shown : handleToggleItem(shown[i])
    \/ \E newItemName \in NewItemNames :
           trim(newItemName) # <<>> /\ handleAddShoppingItem(trim(newItemName))
    \/ handleClearChecked

SpecShop == InitShop /\ [][NextShop]_vars

(***************************************************************************)
(* What the aggregate is expected to hold, stated without the code's maps. *)
(***************************************************************************)
\* name[i..j], compared without case, is the staple and stands between
\* the ends of the name or characters that are neither letters nor digits
ContainsWholeWord(name, staple) ==
    \E i \in 1..Len(name) :
        LET j == i + Len(staple) - 1
        IN /\ Len(staple) > 0
           /\ j <= Len(name)
           /\ toLowerCase(SubSeq(name, i, j)) = toLowerCase(staple)
           /\ (i = 1 \/ name[i - 1] \in {" ", "-"})
           /\ (j = Len(name) \/ name[j + 1] \in {" ", "-"})

MatchesSomeStaple(name, pantryStaples) ==
    \E k \in DOMAIN pantryStaples : ContainsWholeWord(name, pantryStaples[k])

NameUnit(x) == <<toLowerCase(x.item_name), toLowerCase(x.unit)>>

\* <<m, i>>: ingredient i of the content that meal m of the plan resolves to
Contributions(meals, rs) ==
    {p \in (DOMAIN meals) \X (1..Max({Len(l) : l \in IngredientLists})) :
        /\ HasRecipe(rs, meals[p[1]].recipe_id)
        /\ p[2] <= Len(targetRecipeOf(meals[p[1]],
                           FindRecipe(rs, meals[p[1]].recipe_id)).ingredients)}

ContributionIng(meals, rs, p) ==
    targetRecipeOf(meals[p[1]], FindRecipe(rs, meals[p[1]].recipe_id)).ingredients[p[2]]

\* ingredient.quantity * (servings / servings_default)
ContributionQuantity(meals, rs, p) ==
    LET meal == meals[p[1]]
        target == targetRecipeOf(meal, FindRecipe(rs, meal.recipe_id))
        servings == IF meal.servings = 0 THEN target.servings_default ELSE meal.servings
    IN Frac(ContributionIng(meals, rs, p).quantity * servings, target.servings_default)

RECURSIVE SumQuantities(_, _, _)
SumQuantities(meals, rs, ps) ==
    IF ps = {} THEN Num(0)
    ELSE LET p == CHOOSE q \in ps : TRUE
         IN FracAdd(ContributionQuantity(meals, rs, p),
                    SumQuantities(meals, rs, ps \ {p}))

NonStapleContributions(meals, rs, pantryStaples) ==
    {p \in Contributions(meals, rs) :
        ~MatchesSomeStaple(ContributionIng(meals, rs, p).item_name, pantryStaples)}

GeneratedLines(list) == SelectSeq(list, LAMBDA item : ~item.is_manually_added)

\* the lines the aggregation generates for the inputs held in the state
GeneratedNow == generatedMapOf(shoppingItems, plan, recipes, settings.pantry_staples)

\* the list the aggregation returns for the inputs held in the state, for
\* one outcome of the random draws over the generated lines g
MergedNow(g, rnd) == manualItemsOf(shoppingItems) \o withFreshIds(g, now, rnd)

\* C2 (Conservation): the aggregate has exactly one generated line for every
\* (name, unit) key that receives a non-staple contribution and no other
\* generated line, and the quantity of the line is the sum of
\* quantity * (servings / servings_default) over the contributions to its key.
C2_Conservation ==
    LET g == GeneratedNow
        ps == NonStapleContributions(plan, recipes, settings.pantry_staples)
        keys == {NameUnit(ContributionIng(plan, recipes, p)) : p \in ps}
        expected ==
            {<<k, SumQuantities(plan, recipes,
                      {p \in ps : NameUnit(ContributionIng(plan, recipes, p)) = k})>> :
                k \in keys}
    IN \A rnd \in RandomDraws(g) :
        LET lines == GeneratedLines(MergedNow(g, rnd))
        IN /\ Len(lines) = Cardinality(keys)
           /\ {<<NameUnit(lines[i]), lines[i].quantity>> : i \in DOMAIN lines} = expected

\* Scenario A has been aggregated: Chicken 1000 g is the only line
C2_Witness ==
    /\ recipes = <<RecipeB1, RecipeA1>>
    /\ plan = <<MkMeal(10, 1, 1, 1, 8)>>
    /\ settings.pantry_staples = <<Salt>>
    /\ Len(shoppingItems) = 1
    /\ ~shoppingItems[1].is_manually_added
    /\ shoppingItems[1].item_name = Chicken
    /\ shoppingItems[1].unit = gUnit
    /\ shoppingItems[1].quantity = Num(1000)

\* C3 (Idempotence): aggregating the result of an aggregation again, with the
\* same plan, catalog and staples, returns that result: every line keeps its
\* id, its checked flag and its quantity, whatever the clock and the random
\* draws of the second call are.
C3_Idempotence ==
    LET g == GeneratedNow
    IN \A rnd1 \in RandomDraws(g) :
        LET first == MergedNow(g, rnd1)
            again == generatedMapOf(first, plan, recipes, settings.pantry_staples)
        IN \A t \in {now, now + 1} :
             \A rnd2 \in RandomDraws(again) :
                manualItemsOf(first) \o withFreshIds(again, t, rnd2) = first

\* the list is the result of an aggregation and holds a manual item and a
\* newly generated line of the same key
C3_Witness ==
    /\ \E i, j \in DOMAIN shoppingItems :
          /\ shoppingItems[i].is_manually_added
          /\ ~shoppingItems[j].is_manually_added
          /\ KeyOf(shoppingItems[i]) = KeyOf(shoppingItems[j])
          /\ shoppingItems[j].id >= DateNowId(now)
    /\ LET g == GeneratedNow
       IN \E rnd \in RandomDraws(g) : MergedNow(g, rnd) = shoppingItems

\* C4 (Manual preservation): the manual items of the previous list are the
\* first items of the result, unchanged and in their order, and every item
\* after them is a generated line.
C4_ManualPreservation ==
    LET g == GeneratedNow
        manual == {i \in DOMAIN shoppingItems : shoppingItems[i].is_manually_added}
        n == Cardinality(manual)
    IN \A rnd \in RandomDraws(g) :
        LET out == MergedNow(g, rnd)
        IN /\ Len(out) >= n
           /\ \A i \in manual :
                 out[Cardinality({k \in manual : k <= i})] = shoppingItems[i]
           /\ \A k \in DOMAIN out : out[k].is_manually_added <=> k <= n

\* an aggregated list of two manual items, one of them checked, followed by a
\* generated line that has the key of a manual item
C4_Witness ==
    /\ Len(shoppingItems) >= 3
    /\ shoppingItems[1].is_manually_added /\ shoppingItems[2].is_manually_added
    /\ shoppingItems[1].checked # shoppingItems[2].checked
    /\ \E j \in DOMAIN shoppingItems :
          /\ ~shoppingItems[j].is_manually_added
          /\ KeyOf(shoppingItems[j]) = KeyOf(shoppingItems[1])
          /\ shoppingItems[j].id >= DateNowId(now)

UpdateCall(updated) == handleUpdateRecipe(updated) \/ App2_handleUpdateRecipe(updated)

\* a call of handleAddMeal, in either variant
AddMealCall(date, recipeId) ==
    handleAddMeal(date, recipeId) \/ App2_handleAddMeal(date, recipeId)

\* the pinned version of the meal is the current version of its recipe or
\* the version of an entry of its history
PinResolvable(meal, rs) ==
    /\ HasRecipe(rs, meal.recipe_id)
    /\ LET recipe == FindRecipe(rs, meal.recipe_id)
       IN \/ meal.recipe_version = recipe.version
          \/ \E k \in DOMAIN recipe.history :
                 recipe.history[k].version = meal.recipe_version

\* the lines mergeShoppingList generates for a plan of this one meal
LinesOfMeal(meal, rs) == generatedMapOf(<<>>, <<meal>>, rs, settings.pantry_staples)

RECURSIVE SumScaled(_, _, _, _)
SumScaled(ingredients, js, servings, servings_default) ==
    IF js = {} THEN Num(0)
    ELSE LET j == CHOOSE x \in js : TRUE
         IN FracAdd(Frac(ingredients[j].quantity * servings, servings_default),
                    SumScaled(ingredients, js \ {j}, servings, servings_default))

\* (name, unit) and quantity * servings / servings_default, summed per
\* (name, unit), of the ingredients that match no staple
DirectLines(ingredients, servings, servings_default) ==
    LET kept == {j \in DOMAIN ingredients :
                    ~MatchesSomeStaple(ingredients[j].item_name, settings.pantry_staples)}
    IN {<<NameUnit(ingredients[j]),
          SumScaled(ingredients,
                    {x \in kept : NameUnit(ingredients[x]) = NameUnit(ingredients[j])},
                    servings, servings_default)>> : j \in kept}

RemoveAt(s, k) == SubSeq(s, 1, k - 1) \o SubSeq(s, k + 1, Len(s))

\* the entry records the recipe as it was: its version and its content
Records(entry, recipe) ==
    /\ entry.version = recipe.version
    /\ entry.ingredients = recipe.ingredients
    /\ entry.instructions = recipe.instructions

\* C1 (Version pinning): a meal that handleAddMeal creates is pinned to the
\* current version of its recipe and contributes the lines computed from the
\* ingredients of that version; and every call of handleUpdateRecipe that
\* edits the ingredients of a recipe leaves every pinned meal of the plan as
\* it is, its version still to be found, and the lines the meal contributes
\* to mergeShoppingList exactly as they were before the edit.  In the second
\* variant the stored shopping list is the same after the edit.
C1_VersionPinning ==
    [][/\ \A i \in DOMAIN recipes : \A updated \in Proposals(recipes[i]) :
              (UpdateCall(updated) /\ updated.ingredients # recipes[i].ingredients) =>
                  /\ \A m \in DOMAIN plan :
                        PinResolvable(plan[m], recipes) =>
                            /\ m \in DOMAIN plan'
                            /\ plan'[m] = plan[m]
                            /\ PinResolvable(plan[m], recipes')
                            /\ LinesOfMeal(plan[m], recipes') = LinesOfMeal(plan[m], recipes)
                  /\ (variant = 2 /\ \A m \in DOMAIN plan : PinResolvable(plan[m], recipes))
                         => shoppingItems' = shoppingItems
       /\ \A date \in Dates : \A i \in DOMAIN recipes :
              AddMealCall(date, recipes[i].id) =>
                  LET meal == plan'[Len(plan')]
                      lines == LinesOfMeal(meal, recipes')
                  IN /\ meal.recipe_id = recipes[i].id
                     /\ meal.recipe_version = recipes[i].version
                     /\ {<<NameUnit(lines[k].value), lines[k].value.quantity>> :
                            k \in DOMAIN lines}
                           = DirectLines(recipes[i].ingredients, meal.servings,
                                         recipes[i].servings_default)
      ]_vars

\* a meal of today pinned to version 1 of the Stew, whose ingredients have
\* been edited since and which is at version 3: the stored list of the
\* second variant still has the line Chicken 500 g of version 1
C1_Witness ==
    /\ variant = 2
    /\ recipes[1].id = 1 /\ recipes[1].version = 3 /\ recipes[1].ingredients = IngsB
    /\ \E m \in DOMAIN plan :
          /\ plan[m].recipe_id = 1 /\ plan[m].recipe_version = 1 /\ plan[m].date = Today
          /\ targetRecipeOf(plan[m], recipes[1]).ingredients = IngsA
    /\ Len(shoppingItems) = 1
    /\ shoppingItems[1].item_name = Chicken
    /\ shoppingItems[1].unit = gUnit
    /\ shoppingItems[1].quantity = Num(500)

\* C6 (Content edit bumps the version): a call of handleUpdateRecipe whose
\* proposal differs from the stored recipe in its ingredients or its
\* instructions stores version + 1 and a history that is the previous
\* history followed by one new entry at the end, which has the version, the
\* ingredients and the instructions of the recipe before the edit.
C6_ContentEditAppendsSnapshot ==
    [][\A i \in DOMAIN recipes : \A updated \in Proposals(recipes[i]) :
           (/\ UpdateCall(updated)
            /\ \/ updated.ingredients # recipes[i].ingredients
               \/ updated.instructions # recipes[i].instructions) =>
               LET stored == recipes[i]
                   result == recipes'[i]
                   n == Len(stored.history)
               IN /\ result.version = stored.version + 1
                  /\ Len(result.history) = n + 1
                  /\ SubSeq(result.history, 1, n) = stored.history
                  /\ Records(result.history[n + 1], stored)
      ]_vars

\* C7 (as the specification states it): a call of handleUpdateRecipe whose
\* proposal changes the instructions alone leaves the version and the
\* history of the stored recipe as they are.
C7_InstructionsOnlyKeepsVersion ==
    [][\A i \in DOMAIN recipes : \A updated \in Proposals(recipes[i]) :
           (/\ UpdateCall(updated)
            /\ updated.ingredients = recipes[i].ingredients
            /\ updated.instructions # recipes[i].instructions) =>
               /\ recipes'[i].version = recipes[i].version
               /\ recipes'[i].history = recipes[i].history
      ]_vars

\* C7 (amended): a call of handleUpdateRecipe whose proposal changes the
\* instructions alone stores version + 1 and adds exactly one entry to the
\* history, which records the recipe before the edit; the other entries are
\* the previous history.
C7_InstructionsOnlyBumpsVersion ==
    [][\A i \in DOMAIN recipes : \A updated \in Proposals(recipes[i]) :
           (/\ UpdateCall(updated)
            /\ updated.ingredients = recipes[i].ingredients
            /\ updated.instructions # recipes[i].instructions) =>
               /\ recipes'[i].version = recipes[i].version + 1
               /\ recipes'[i].ingredients = recipes[i].ingredients
               /\ recipes'[i].instructions = updated.instructions
               /\ \E k \in DOMAIN recipes'[i].history :
                     /\ Records(recipes'[i].history[k], recipes[i])
                     /\ RemoveAt(recipes'[i].history, k) = recipes[i].history
      ]_vars

\* the Stew at version 2 after an edit of its instructions alone: the one
\* entry of its history has the ingredients of the current version and
\* other instructions
C7_Witness ==
    \E i \in DOMAIN recipes :
        /\ recipes[i].version = 2
        /\ Len(recipes[i].history) = 1
        /\ recipes[i].history[1].version = 1
        /\ recipes[i].history[1].ingredients = recipes[i].ingredients
        /\ recipes[i].history[1].instructions # recipes[i].instructions

\* C8 (Unchanged content keeps version and history): a call of
\* handleUpdateRecipe whose proposal has the ingredients and the
\* instructions of the stored recipe stores the version and the history of
\* the stored recipe, whatever version and history the proposal carries.
C8_UnchangedContentKeepsVersion ==
    [][\A i \in DOMAIN recipes : \A updated \in Proposals(recipes[i]) :
           (/\ UpdateCall(updated)
            /\ updated.ingredients = recipes[i].ingredients
            /\ updated.instructions = recipes[i].instructions) =>
               /\ recipes'[i].version = recipes[i].version
               /\ recipes'[i].history = recipes[i].history
               /\ recipes'[i].ingredients = recipes[i].ingredients
               /\ recipes'[i].instructions = recipes[i].instructions
      ]_vars

\* C9 (No nested history): no entry of the history of a recipe has a
\* history of its own.
C9_NoNestedHistory ==
    \A i \in DOMAIN recipes : \A k \in DOMAIN recipes[i].history :
        recipes[i].history[k].history = <<>>

\* C10 (Version invariant over all write paths): in every step, a recipe
\* that is stored before and after it and whose ingredients or instructions
\* change has its version raised by exactly 1 and its content of before the
\* step recorded in its history; no version decreases and every entry of a
\* history is still in the history, unmodified.
C10_VersionInvariant ==
    [][\A i \in DOMAIN recipes : \A j \in DOMAIN recipes' :
           recipes'[j].id = recipes[i].id =>
               LET before == recipes[i]
                   after == recipes'[j]
               IN /\ (\/ after.ingredients # before.ingredients
                      \/ after.instructions # before.instructions) =>
                         /\ after.version = before.version + 1
                         /\ \E k \in DOMAIN after.history :
                               Records(after.history[k], before)
                  /\ after.version >= before.version
                  /\ \A k \in DOMAIN before.history :
                        \E l \in DOMAIN after.history :
                            after.history[l] = before.history[k]
      ]_vars

(***************************************************************************)
(* Version resolution and carry-forward in mergeShoppingList.              *)
(***************************************************************************)
\* the content the pinned version p of a meal stands for
ResolvedContent(meal, recipe) ==
    LET p == meal.recipe_version
    IN IF p = recipe.version THEN recipe
       ELSE IF \E k \in DOMAIN recipe.history : recipe.history[k].version = p
       THEN recipe.history[CHOOSE k \in DOMAIN recipe.history :
                               recipe.history[k].version = p]
       ELSE recipe

\* (name, unit) and quantity of the lines of a generated map
LineSet(g) == {<<NameUnit(g[i].value), g[i].value.quantity>> : i \in DOMAIN g}

\* C12 (Version resolution): for every meal of the plan whose recipe is in
\* the catalog, the lines mergeShoppingList computes for the meal are those
\* of the current ingredients of the recipe when the pinned version is the
\* current version, those of the history entry of the pinned version when
\* there is one, and those of the current ingredients, without an error,
\* when the pinned version is neither the current one nor in history.
C12_VersionResolution ==
    \A k \in DOMAIN plan :
        HasRecipe(recipes, plan[k].recipe_id) =>
            LET meal == plan[k]
                content == ResolvedContent(meal, FindRecipe(recipes, meal.recipe_id))
                servings == IF meal.servings = 0 THEN content.servings_default
                            ELSE meal.servings
            IN LineSet(LinesOfMeal(meal, recipes))
                   = DirectLines(content.ingredients, servings,
                                 content.servings_default)

\* Stew is at version 2 with version 1 in history; a meal pinned to version
\* 1 (8 servings of 4: Chicken 1000 g) and a meal pinned to the unknown
\* version 3 (current content: chicken 200 G) have been aggregated
C12_Witness ==
    /\ recipes = <<RecipeA2, RecipeB1>>
    /\ plan = <<MkMeal(10, 1, 1, 1, 8), MkMeal(14, 5, 1, 3, 0)>>
    /\ settings.pantry_staples = <<Salt>>
    /\ Len(shoppingItems) = 1
    /\ shoppingItems[1].item_name = Chicken
    /\ shoppingItems[1].quantity = Num(1200)
    /\ ~shoppingItems[1].is_manually_added

\* C19 (Deleted recipe): a meal of the plan whose recipe_id is the id of no
\* recipe of the catalog adds no line and no quantity to the lines that
\* mergeShoppingList generates, and the lines are those generated for the
\* plan without that meal; the aggregation is defined for such a plan.
C19_DeletedRecipeSkipped ==
    \A k \in DOMAIN plan :
        ~HasRecipe(recipes, plan[k].recipe_id) =>
            /\ generatedMapOf(shoppingItems, <<plan[k]>>, recipes,
                              settings.pantry_staples) = <<>>
            /\ GeneratedNow = generatedMapOf(shoppingItems, RemoveAt(plan, k),
                                             recipes, settings.pantry_staples)

\* a meal of recipe 3, which is in no catalog, precedes a meal of Stew;
\* the aggregated list holds the one line of the Stew meal
C19_Witness ==
    /\ recipes = <<RecipeB1, RecipeA1>>
    /\ plan = <<MkMeal(13, 4, 3, 1, 4), MkMeal(10, 1, 1, 1, 8)>>
    /\ settings.pantry_staples = <<Salt>>
    /\ Len(shoppingItems) = 1
    /\ shoppingItems[1].item_name = Chicken
    /\ shoppingItems[1].unit = gUnit
    /\ shoppingItems[1].quantity = Num(1000)

\* the ids of the items of a list
IdsOf(list) == {list[j].id : j \in DOMAIN list}

\* C13 as stated (Carry-forward): every generated line whose (lowercase
\* name, lowercase unit) is that of an item of the previous list, manual or
\* generated, has the id and the checked flag of such an item; a line that
\* matches no previous item is unchecked and its id is not in the previous list.
C13_CarryForwardFromAnyItem ==
    LET g == GeneratedNow
    IN \A rnd \in RandomDraws(g) :
           LET lines == withFreshIds(g, now, rnd)
           IN \A i \in DOMAIN lines :
                  LET same == {j \in DOMAIN shoppingItems :
                                  NameUnit(shoppingItems[j]) = NameUnit(lines[i])}
                  IN IF same # {}
                     THEN \E j \in same :
                              /\ lines[i].id = shoppingItems[j].id
                              /\ lines[i].checked = shoppingItems[j].checked
                     ELSE /\ ~lines[i].checked
                          /\ lines[i].id \notin IdsOf(shoppingItems)

\* C13 (Carry-forward, amended): with the key lowercase name + "-" +
\* lowercase unit, a generated line has the checked flag of the last item of
\* the previous list with its key, manual or generated, and is unchecked
\* when there is none; its id is the id of the last generated item of the
\* previous list with its key, and an id that is not in the previous list
\* when no generated item has its key.
C13_CarryForward ==
    LET g == GeneratedNow
    IN \A rnd \in RandomDraws(g) :
           LET lines == withFreshIds(g, now, rnd)
           IN \A i \in DOMAIN lines :
                  LET same == {j \in DOMAIN shoppingItems :
                                  KeyOf(shoppingItems[j]) = KeyOf(lines[i])}
                      gen == {j \in same : ~shoppingItems[j].is_manually_added}
                  IN /\ lines[i].checked = IF same = {} THEN FALSE
                                           ELSE shoppingItems[Max(same)].checked
                     /\ IF gen # {}
                        THEN lines[i].id = shoppingItems[Max(gen)].id
                        ELSE lines[i].id \notin IdsOf(shoppingItems)

\* the previous list held the checked manual item Chicken g and no generated
\* line of that key: the new line is checked and has an id of its own
C13_Witness ==
    /\ Len(shoppingItems) >= 2
    /\ shoppingItems[1] = ItemChicken
    /\ \E i \in DOMAIN shoppingItems :
           /\ ~shoppingItems[i].is_manually_added
           /\ KeyOf(shoppingItems[i]) = KeyOf(ItemChicken)
           /\ shoppingItems[i].checked
           /\ shoppingItems[i].id >= DateNowId(now)

\* C20 (Grouping): the generated lines stand one to one for the (lowercase
\* name, lowercase unit) pairs of the non-staple contributions: as many
\* lines as pairs, and every pair has a line of exactly its name and unit,
\* so that contributions are summed into one line if and only if their
\* names are equal and their units are equal.
C20_GroupingByNameAndUnit ==
    LET g == GeneratedNow
        ps == NonStapleContributions(plan, recipes, settings.pantry_staples)
        pairs == {NameUnit(ContributionIng(plan, recipes, p)) : p \in ps}
    IN /\ Len(g) = Cardinality(pairs)
       /\ {NameUnit(g[i].value) : i \in DOMAIN g} = pairs

(***************************************************************************)
(* The shopping list under user interaction.                               *)
(***************************************************************************)
\* C14 (Interaction survives aggregation): when the user clicks a generated
\* line that ShopView shows, every aggregation after the click shows the
\* line of that key with the id of the clicked line and the opposite of
\* its checked value (the state does not change again until the next
\* handler call, so this covers each later aggregation up to that call).
C14_ToggleSurvivesAggregation ==
    [][LET g == visibleMap
       IN \A rnd \in RandomDraws(g) : \A i \in DOMAIN g :
              LET item == withFreshIds(g, now, rnd)[i]
              IN handleToggleItem(item) =>
                     LET after == generatedMapOf(shoppingItems', visiblePlan(plan'),
                                                 recipes', settings'.pantry_staples)
                     IN \A j \in DOMAIN after :
                            after[j].key = KeyOf(item) =>
                                /\ after[j].value.id = item.id
                                /\ after[j].value.checked = ~item.checked]_vars

(***************************************************************************)
(* The meal plan: pinned versions, the generator, undo.                    *)
(***************************************************************************)
\* the plan items that a step has created: their ids are of the clock of
\* this call and the plan did not hold them
CreatedItems ==
    {j \in DOMAIN plan' : /\ plan'[j].id >= DateNowId(now)
                          /\ withId(plan, plan'[j].id) = {}}

\* C11 (Version pinned at creation): in every step a plan item that the step
\* creates for a recipe of the catalog carries the version that the recipe
\* has at that moment, and every plan item that is in the plan before and
\* after the step (recipe update, move, reorder, rating, servings change,
\* undo, or any other handler) keeps its recipe_id and recipe_version.
C11_VersionPinnedAtCreation ==
    [][/\ \A j \in CreatedItems :
              HasRecipe(recipes, plan'[j].recipe_id) =>
                  plan'[j].recipe_version =
                      FindRecipe(recipes, plan'[j].recipe_id).version
       /\ \A i \in DOMAIN plan : \A j \in DOMAIN plan' :
              plan'[j].id = plan[i].id =>
                  /\ plan'[j].recipe_id = plan[i].recipe_id
                  /\ plan'[j].recipe_version = plan[i].recipe_version]_vars

\* a meal pinned to version 2 of its recipe and rated
\* after the recipe went on to version 3
C11_Witness ==
    /\ variant = 1
    /\ \E i \in DOMAIN plan :
           /\ plan[i].recipe_id = RecipeA2.id
           /\ plan[i].recipe_version = 2
           /\ plan[i].rating # NoRating
           /\ HasRecipe(recipes, RecipeA2.id)
           /\ FindRecipe(recipes, RecipeA2.id).version = 3

\* the items that a call of the generator has appended to the plan
AddedByGenerator == {j \in DOMAIN plan' : j > Len(plan)}

GeneratorStep == \E startDateStr \in StartDates : handleGeneratePlan(startDateStr)

\* C17 (Generator frame): a call of handleGeneratePlan keeps every item of
\* the plan in place with all fields unchanged, and every item it adds is
\* on a date not before today on which the plan had no item and on which
\* the call adds no other item.
C17_GeneratorFrame ==
    [][plan' # plan /\ GeneratorStep =>
           /\ Len(plan') >= Len(plan)
           /\ SubSeq(plan', 1, Len(plan)) = plan
           /\ \A j \in AddedByGenerator :
                  /\ plan'[j].date >= Today
                  /\ withDate(plan, plan'[j].date) = {}
                  /\ withDate(plan', plan'[j].date) = {j}]_vars

\* the week from yesterday on, generated over a plan that had a meal today:
\* yesterday and today are skipped, the five days after today are filled
C17_Witness ==
    /\ variant = 1
    /\ springForward = 0
    /\ Len(plan) = 6
    /\ plan[1].date = Today
    /\ plan[1].id = DateNowId(1)
    /\ \A j \in 2..6 : /\ plan[j].date = Today + j - 1
                       /\ plan[j].id = DateNowId(2) + j * RandomLevels
    /\ planHistory = <<<<>>, <<plan[1]>>>>

\* the meals of the recipe on the day before the date, in plan p
dayBefore(p, recipeId, date) ==
    {i \in DOMAIN p : p[i].recipe_id = recipeId /\ p[i].date = date - 1}

\* C15 (Recency penalty dominates): when handleGeneratePlan adds an item for
\* a date, with the working plan being the items before it, and the
\* selected recipe has a meal on the day before that date in the working
\* plan, then every recipe of the catalog has a meal on the day before in
\* the working plan, whatever the jitter draws: a recipe eaten the day
\* before is never chosen over one that was not.
C15_DayBeforeOnlyIfAll ==
    [][plan' # plan /\ GeneratorStep =>
           \A j \in AddedByGenerator :
               LET working == SubSeq(plan', 1, j - 1)
                   date == plan'[j].date
               IN dayBefore(working, plan'[j].recipe_id, date) # {} =>
                      \A k \in DOMAIN recipes :
                          dayBefore(working, recipes[k].id, date) # {}]_vars

\* both recipes of the catalog were eaten today, the generator has chosen
\* one of them for tomorrow all the same, and the other one for the day
\* after
C15_Witness ==
    /\ variant = 1
    /\ Len(plan) >= 4
    /\ plan[1].date = Today /\ plan[2].date = Today
    /\ plan[1].recipe_id # plan[2].recipe_id
    /\ plan[3].date = Today + 1 /\ plan[3].id >= DateNowId(3)
    /\ plan[4].date = Today + 2 /\ plan[4].recipe_id # plan[3].recipe_id

\* C16 (Fill postcondition): after handleGeneratePlan(start) with a catalog
\* that is not empty, every date of start..start+6 that is not before today
\* has a plan item, exactly one item having been added for each such date
\* that had none; with an empty catalog the plan is unchanged.
C16_FillPostcondition ==
    [][\A startDateStr \in StartDates :
           handleGeneratePlan(startDateStr) =>
               IF Len(recipes) = 0 THEN plan' = plan
               ELSE \A date \in startDateStr..(startDateStr + WindowDays - 1) :
                        date >= Today =>
                            /\ withDate(plan', date) # {}
                            /\ withDate(plan, date) = {} =>
                                   Cardinality(withDate(plan', date)
                                                   \cap AddedByGenerator) = 1]_vars

\* the operations that change the plan and can be undone, of both variants
PlanChangingStep ==
    \/ \E date \in Dates : \E i \in DOMAIN recipes :
           \/ handleAddMeal(date, recipes[i].id)
           \/ App2_handleAddMeal(date, recipes[i].id)
    \/ \E date \in PlanDates :
           \/ handleRemoveMeal(date)
           \/ App2_handleRemoveMeal(date)
           \/ \E direction \in Directions :
                  \/ handleMoveMeal(date, direction)
                  \/ App2_handleMoveMeal(date, direction)
    \/ \E mealId \in MealIds : \E targetDate \in PlanDates :
           \/ handleReorderMeal(mealId, targetDate)
           \/ App2_handleReorderMeal(mealId, targetDate)
    \/ handleRegeneratePlan
    \/ \E startDateStr \in StartDates : handleGeneratePlan(startDateStr)

UndoStep == handleUndoPlan \/ handleUndo

\* the last n entries of a history
LastEntries(h, n) == SubSeq(h, Len(h) - n + 1, Len(h))

\* C18 (Undo round trip): every plan-changing operation puts the plan as it
\* was before the operation on top of the history and keeps the entries
\* below it in order; every undo takes the top entry off the history, makes
\* it the plan in memory and leaves exactly its items in the plan store.  So
\* an operation followed by undo gives back the plan from before the
\* operation, in memory and in the store, and further undos give back the
\* earlier plans, the latest first.
C18_UndoRoundTrip ==
    [][/\ \/ /\ Len(planHistory') > 0
             /\ planHistory'[Len(planHistory')] = plan
             /\ LET below == Len(planHistory') - 1
                IN /\ below <= Len(planHistory)
                   /\ SubSeq(planHistory', 1, below) = LastEntries(planHistory, below)
          \/ ~PlanChangingStep
       /\ UndoStep =>
              /\ plan' = planHistory[Len(planHistory)]
              /\ planHistory' = SubSeq(planHistory, 1, Len(planHistory) - 1)
              /\ storedPlan' = Range(plan')]_vars

\* two operations on the empty plan, then one undo: the plan in memory and
\* in the store is the meal that the first operation added, as it was
\* added, and the empty plan is the one entry left in the history (the
\* second call has changed neither a recipe nor the rating or servings of
\* the meal, so it was an operation that wrote to the history)
C18_Witness ==
    /\ variant = 1
    /\ now = 3
    /\ recipes = <<RecipeA2, RecipeB5>>
    /\ planHistory = <<<<>>>>
    /\ Len(plan) = 1
    /\ plan[1].id = DateNowId(1)
    /\ plan[1].rating = NoRating
    /\ plan[1].servings = FindRecipe(recipes, plan[1].recipe_id).servings_default
    /\ storedPlan = {plan[1]}

(***************************************************************************)
(* The plan as a calendar and the plan store.                              *)
(***************************************************************************)
\* C21 (One meal per date): the plan in memory never has two items of the
\* same date, whatever sequence of add, generate, move, reorder, remove and
\* undo led to it from the empty plan.
C21_OneMealPerDate ==
    \A i \in DOMAIN plan : \A j \in DOMAIN plan :
        plan[i].date = plan[j].date => i = j

(***************************************************************************)
(* The plan generator on its own: a catalog of three recipes with and      *)
(* without a rating of their own, a stored plan with rated and unrated     *)
(* meals before and inside the week, and calls of handleGeneratePlan and   *)
(* handleRateMeal of the first App variant.                                *)
(***************************************************************************)
\* the ratings the recipes of the catalog come with
GenCatalogs ==
    {<<[RecipeA2 EXCEPT !.rating = r1], [RecipeB1 EXCEPT !.rating = 3],
       [RecipeP1 EXCEPT !.rating = r3]>> : r1 \in {NoRating, 0, 5}, r3 \in {3, 5}}

\* the stored meals: yesterday's, tomorrow's and one later in the week
MealYesterday == MkMeal(1, Today - 1, RecipeA2.id, 2, 2)

MealTomorrow == MkMeal(2, Today + 1, RecipeA2.id, 2, 2)

MealLater == MkMeal(3, Today + 3, RecipeB1.id, 1, 2)

GenPlans ==
    {<<>>, <<MealYesterday>>, <<[MealYesterday EXCEPT !.rating = 2]>>,
     <<MealTomorrow>>, <<[MealYesterday EXCEPT !.rating = 5], MealLater>>,
     <<MealTomorrow, MealLater>>}

InitGen ==
    /\ variant = 1
    /\ recipes \in GenCatalogs
    /\ plan \in GenPlans
    /\ planHistory = <<>>
    /\ storedPlan = Range(plan)
    /\ springForward = 0
    /\ inFlight = {}
    /\ shoppingItems = <<>>
    /\ settings = [pantry_staples |-> <<Salt>>]
    /\ now = 1

NextGen ==
    \/ \E startDateStr \in StartDates : handleGeneratePlan(startDateStr)
    \/ \E id \in MealIds : \E rating \in Ratings : handleRateMeal(id, rating)

SpecGen == InitGen /\ [][NextGen]_vars

(***************************************************************************)
(* What the generator's scores are expected to be.                         *)
(***************************************************************************)
FracEq(a, b) == a[1] * b[2] = b[1] * a[2]

\* the mean of the recorded ratings of the recipe's meals, else the
\* recipe's own rating if it has one, else 3.5
QualityScore(p, recipe) ==
    LET rated == {j \in DOMAIN p : p[j].recipe_id = recipe.id /\ p[j].rating # NoRating}
    IN IF rated # {} THEN <<SumRatings(p, rated), Cardinality(rated)>>
       ELSE IF recipe.rating # NoRating THEN <<recipe.rating, 1>>
       ELSE <<7, 2>>

\* C22 (Quality score): for every recipe of the catalog and every plan the
\* generator works on, the rating score of handleGeneratePlan is the mean
\* of the ratings of the recipe's rated meals if there is one, else the
\* recipe's own rating whenever it has one, whatever number it is, and 3.5
\* only when the recipe has no rating.
C22_QualityScore ==
    \A k \in DOMAIN recipes :
        FracEq(avgRating(plan, recipes[k]), QualityScore(plan, recipes[k]))

\* the days since the most recent meal of the recipe on a date strictly
\* before the date, 100 if there is none
RecencyDays(p, recipe, date) ==
    LET earlier == {p[j].date : j \in {x \in DOMAIN p :
                       p[x].recipe_id = recipe.id /\ p[x].date < date}}
    IN IF earlier = {} THEN 100 ELSE date - Max(earlier)

GraduatedPenalty(recencyDays) ==
    IF recencyDays <= 1 THEN 10000
    ELSE IF recencyDays <= 2 THEN 5000
    ELSE IF recencyDays <= 5 THEN 2000
    ELSE IF recencyDays <= 7 THEN 500
    ELSE 0

\* qualityScore*10 + min(recencyDays,30)*2 minus the penalty
PreJitterScore(p, recipe, date) ==
    LET quality == QualityScore(p, recipe)
        recencyDays == RecencyDays(p, recipe, date)
    IN ScoreAdd(<<quality[1] * 10, quality[2]>>,
                <<Min({recencyDays, 30}) * 2 - GraduatedPenalty(recencyDays), 1>>)

\* C23 (Selection among near-ties): for every item that handleGeneratePlan
\* adds, the pre-jitter score of the selected recipe on the working plan is
\* less than 10 below the pre-jitter score of every recipe of the catalog.
C23_SelectionWithinJitter ==
    [][plan' # plan /\ GeneratorStep =>
           \A j \in AddedByGenerator :
               LET working == SubSeq(plan', 1, j - 1)
                   date == plan'[j].date
                   selected == PreJitterScore(working,
                                   FindRecipe(recipes, plan'[j].recipe_id), date)
               IN \A k \in DOMAIN recipes :
                      ScoreLess(PreJitterScore(working, recipes[k], date),
                                ScoreAdd(selected, <<10, 1>>))]_vars

\* no recipe has meals on two consecutive dates of plan p
NoConsecutiveRepeat(p) ==
    \A i \in DOMAIN p : \A j \in DOMAIN p :
        p[j].date = p[i].date + 1 => p[j].recipe_id # p[i].recipe_id

OneItemPerDate(p) ==
    \A i \in DOMAIN p : \A j \in DOMAIN p : p[i].date = p[j].date => i = j

\* C27 (No consecutive repeats): with a catalog of at least three recipes,
\* when the plan has at most one item per date and no recipe on two
\* consecutive dates, the plan after handleGeneratePlan has no recipe on
\* two consecutive dates either.
C27_NoConsecutiveRepeats ==
    [][(/\ Len(recipes) >= 3
        /\ OneItemPerDate(plan)
        /\ NoConsecutiveRepeat(plan)
        /\ plan' # plan
        /\ GeneratorStep) => NoConsecutiveRepeat(plan')]_vars

\* C25 (Memory and store agree): in the first App variant, after every plan
\* handler and its persistence calls, the items of the plan store are the
\* items of the plan in memory.
C25_StoreEqualsMemory ==
    variant = 1 => storedPlan = Range(plan)

(***************************************************************************)
(* handleGeneratePlan await by await.  A call captures the plan of the     *)
(* render it was made in, works on its own copy and awaits               *)
(* storage.savePlanItem after every item; setPlan comes after the loop.    *)
(* inFlight holds the calls that have not returned: the clock and the      *)
(* start date of the call, its working plan and the day the loop is at.    *)
(* The Generate button stays enabled while a call is in flight.            *)
(***************************************************************************)
\* the calls of the generator that are in flight together
MaxCalls == 2

\* the next day from i on that the loop fills, WindowDays if there is none
RECURSIVE nextDay(_, _, _, _)
nextDay(newPlan, rs, start, i) ==
    IF i = WindowDays THEN WindowDays
    ELSE IF skipDate(newPlan, addDays(start, i)) \/ Len(rs) = 0
         THEN nextDay(newPlan, rs, start, i + 1)
         ELSE i

\* the click on Generate: savePlanToHistory and newPlan = [...plan]
callGeneratePlan(startDateStr) ==
    /\ variant = 1
    /\ now < MaxNow
    /\ Cardinality(inFlight) < MaxCalls
    /\ planHistory' = savePlanToHistory(planHistory, plan)
    /\ inFlight' = inFlight \cup {[clock |-> now, start |-> startDateStr,
                                   newPlan |-> plan, i |-> 0]}
    /\ now' = now + 1
    /\ UNCHANGED <<variant, recipes, plan, shoppingItems, settings, storedPlan,
                   springForward>>

\* the call runs to its next await with the save succeeding, or past the
\* loop to setPlan(newPlan)
resumeGeneratePlan(call) ==
    /\ call \in inFlight
    /\ LET i == nextDay(call.newPlan, recipes, call.start, call.i)
           dateStr == addDays(call.start, i)
       IN IF i = WindowDays
          THEN /\ plan' = call.newPlan
               /\ inFlight' = inFlight \ {call}
               /\ UNCHANGED storedPlan
          ELSE \E k \in bestMatches(call.newPlan, recipes, dateStr) :
                   LET selectedRecipe == FindRecipe(recipes, recipes[k].id)
                       newItem == MkMeal(DateNowId(call.clock) + i * RandomLevels,
                                         dateStr, selectedRecipe.id,
                                         selectedRecipe.version,
                                         selectedRecipe.servings_default)
                   IN /\ storedPlan' = savePlanItem(storedPlan, newItem)
                      /\ inFlight' = (inFlight \ {call}) \cup
                             {[call EXCEPT !.newPlan = Append(call.newPlan, newItem),
                                           !.i = i + 1]}
                      /\ UNCHANGED plan
    /\ UNCHANGED <<variant, recipes, planHistory, shoppingItems, settings, now,
                   springForward>>

\* the save of the next item is rejected: the call throws out of the loop
rejectGeneratePlan(call) ==
    /\ call \in inFlight
    /\ nextDay(call.newPlan, recipes, call.start, call.i) < WindowDays
    /\ inFlight' = inFlight \ {call}
    /\ UNCHANGED <<variant, recipes, plan, planHistory, shoppingItems, settings, now,
                   storedPlan, springForward>>

InitOverlap ==
    /\ variant = 1
    /\ recipes = <<RecipeA2, RecipeB5>>
    /\ plan \in {<<>>, <<MkMeal(1, Today + 1, RecipeA2.id, 2, 2)>>}
    /\ planHistory = <<>>
    /\ storedPlan = Range(plan)
    /\ springForward = 0
    /\ inFlight = {}
    /\ shoppingItems = <<>>
    /\ settings = [pantry_staples |-> <<Salt>>]
    /\ now = 1

\* clicks on Generate at any time, every save succeeding
NextOverlap ==
    \/ \E startDateStr \in StartDates : callGeneratePlan(startDateStr)
    \/ \E call \in inFlight : resumeGeneratePlan(call)

SpecOverlap == InitOverlap /\ [][NextOverlap]_vars

\* one call at a time, a save possibly failing
NextReject ==
    \/ inFlight = {} /\ \E startDateStr \in StartDates : callGeneratePlan(startDateStr)
    \/ \E call \in inFlight : resumeGeneratePlan(call)
    \/ \E call \in inFlight : rejectGeneratePlan(call)

SpecReject == InitOverlap /\ [][NextReject]_vars

(***************************************************************************)
(* The generator when a save fails and when calls overlap                  *)
(***************************************************************************)
\* C24 (Failure mid-batch): when a savePlanItem of handleGeneratePlan is
\* rejected the call ends there without a retry, and afterwards no plan item
\* is in durable storage without being in the in-memory plan.
C24_FailureMidBatch ==
    [][(\E call \in inFlight : rejectGeneratePlan(call)) =>
           /\ inFlight' = {}
           /\ storedPlan' \subseteq Range(plan')]_vars

\* C26 (Overlapping generation): when the calls of handleGeneratePlan for
\* one window, overlapping or not, have all returned, neither the persisted
\* plan nor the in-memory plan has two items for one date, and the in-memory
\* plan contains every persisted item.  Every call here is for the window
\* that starts the day before today when no item is dated on the last day
\* of the window that starts today.
C26_OverlappingGeneration ==
    (inFlight = {} /\ \A m \in storedPlan : m.date < Today + WindowDays - 1) =>
        /\ OneItemPerDate(plan)
        /\ \A m1 \in storedPlan : \A m2 \in storedPlan :
               m1.date = m2.date => m1 = m2
        /\ storedPlan \subseteq Range(plan)

(***************************************************************************)
(* Clearing the checked items.  The list that is loaded holds a manual     *)
(* item and the persisted line of Rice, checked or not.                    *)
(***************************************************************************)
LoadedManual(checked) == MkItem(2, riceLower, Num(1), pc, checked, TRUE)

LoadedLine(checked) == MkItem(3, Rice, Num(1), pc, checked, FALSE)

InitClear ==
    /\ variant = 1
    /\ recipes = <<RecipeP1>>
    /\ plan \in {<<MkMeal(1, Today, 3, 1, 2)>>,
                 <<MkMeal(1, Today, 3, 1, 2), MkMeal(2, Today + 1, 3, 1, 4)>>}
    /\ planHistory = <<>>
    /\ storedPlan = Range(plan)
    /\ springForward = 0
    /\ inFlight = {}
    /\ shoppingItems \in {<<LoadedManual(c1), LoadedLine(c2)>> : c1, c2 \in BOOLEAN}
                       \cup {<<LoadedLine(c2), LoadedManual(c1)>> : c1, c2 \in BOOLEAN}
    /\ settings = [pantry_staples |-> <<Salt>>]
    /\ now = 1

SpecClear == InitClear /\ [][NextShop]_vars

\* C28 (Clear-checked then aggregate): after handleClearChecked the
\* aggregation over the unchanged plan of the week has a line for every
\* (name, unit) key that the plan requires outside the staples, with the sum
\* of the contributions to the key as its quantity and not checked, no line
\* of it is checked, and no manual item that was checked is in it.
C28_ClearThenAggregate ==
    [][handleClearChecked =>
        LET meals == visiblePlan(plan)
            after == generatedMapOf(shoppingItems', meals, recipes,
                                    settings.pantry_staples)
            kept == NonStapleContributions(meals, recipes, settings.pantry_staples)
            keptKeys == {NameUnit(ContributionIng(meals, recipes, p)) : p \in kept}
            sumOf(k) == SumQuantities(meals, recipes,
                            {p \in kept : NameUnit(ContributionIng(meals, recipes, p)) = k})
            cleared == {shoppingItems[j].id : j \in
                           {i \in DOMAIN shoppingItems :
                               /\ shoppingItems[i].is_manually_added
                               /\ shoppingItems[i].checked}}
            manual == manualItemsOf(shoppingItems')
        IN /\ \A k \in keptKeys : \E i \in DOMAIN after :
                  /\ NameUnit(after[i].value) = k
                  /\ after[i].value.quantity = sumOf(k)
           /\ \A i \in DOMAIN after : ~after[i].value.checked
           /\ \A i \in DOMAIN manual : manual[i].id \notin cleared]_vars

\* the checked manual item and the checked line of Rice that were loaded
\* have been cleared
C28_Witness ==
    /\ now = 2
    /\ shoppingItems = <<>>

(***************************************************************************)
(* mergeShoppingList of the second mockData (src/unnamed/part_002): the    *)
(* items carry translations, and statusMap and idMap also get the keys of  *)
(* the translations of every item.  translations is the sequence of        *)
(* Object.values(item.translations), empty when there are none.            *)
(***************************************************************************)
\* if (!map.has(trKey)) map.set(trKey, ...) for each translation in turn
RECURSIVE Tr_addKeys(_, _, _)
Tr_addKeys(map, translations, entry) ==
    IF translations = <<>> THEN map
    ELSE LET trKey == KeyOf(Head(translations))
         IN Tr_addKeys(IF MapHas(map, trKey) THEN map
                       ELSE Append(map, [entry EXCEPT !.key = trKey]),
                       Tail(translations), entry)

\* map.set(key, ...)
MapSet(map, entry) ==
    IF MapHas(map, entry.key)
    THEN [i \in DOMAIN map |-> IF map[i].key = entry.key THEN entry ELSE map[i]]
    ELSE Append(map, entry)

RECURSIVE Tr_statusMapOf(_)
Tr_statusMapOf(currentList) ==
    IF currentList = <<>> THEN <<>>
    ELSE LET n == Len(currentList)
             item == currentList[n]
             rest == Tr_statusMapOf(SubSeq(currentList, 1, n - 1))
             entry == [key |-> KeyOf(item), checked |-> item.checked]
         IN Tr_addKeys(MapSet(rest, entry), item.translations, entry)

RECURSIVE Tr_idMapOf(_)
Tr_idMapOf(currentList) ==
    IF currentList = <<>> THEN <<>>
    ELSE LET n == Len(currentList)
             item == currentList[n]
             rest == Tr_idMapOf(SubSeq(currentList, 1, n - 1))
             entry == [key |-> KeyOf(item), id |-> item.id]
         IN Tr_addKeys(IF item.is_manually_added THEN rest ELSE MapSet(rest, entry),
                       item.translations, entry)

Tr_generatedMapOf(currentList, meals, rs, pantryStaples) ==
    addMeals(<<>>, meals, rs, pantryStaples,
             Tr_statusMapOf(currentList), Tr_idMapOf(currentList))

MkItemTr(item, translations) ==
    [id |-> item.id, item_name |-> item.item_name, quantity |-> item.quantity,
     unit |-> item.unit, checked |-> item.checked,
     is_manually_added |-> item.is_manually_added, translations |-> translations]

\* return [...manualItems, ...Array.from(generatedMap.values())], the
\* generated lines with translations: {} or undefined
Tr_mergeShoppingList(currentList, meals, rs, pantryStaples, t, rnd) ==
    LET lines == withFreshIds(Tr_generatedMapOf(currentList, meals, rs, pantryStaples),
                              t, rnd)
    IN manualItemsOf(currentList) \o [i \in DOMAIN lines |-> MkItemTr(lines[i], <<>>)]

Kyckling == <<"K","y","c","k","l","i","n","g">>

\* "Gryta", the stew of a catalog kept in Swedish
RecipeK1 == MkRecipe(4, "Gryta", <<Ing(Kyckling, 400, gUnit)>>, InstrX, 2, 1, <<>>)

TrCatalogs == {<<RecipeA1, RecipeK1>>, <<RecipeK1, RecipeB1>>}

TrMeals == {MkMeal(10, 1, 1, 1, 8), MkMeal(11, 2, 4, 1, 2), MkMeal(12, 3, 2, 1, 3)}

\* the manual item Kyckling, translated as Chicken g
TrManual == MkItemTr(MkItem(2, Kyckling, Num(1), gUnit, TRUE, TRUE),
                     <<[item_name |-> Chicken, unit |-> gUnit]>>)

\* the generated line Chicken g, translated as Kyckling g
TrLine == MkItemTr(MkItem(3, Chicken, Num(500), gUnit, FALSE, FALSE),
                   <<[item_name |-> Kyckling, unit |-> gUnit]>>)

\* previous lists: without translations, a translated manual item, a
\* translated line, both in both orders
TrLists ==
    {<<>>, <<MkItemTr(ItemChicken, <<>>), MkItemTr(ItemSeaSaltLine, <<>>)>>,
     <<TrManual>>, <<TrLine>>, <<TrManual, TrLine>>, <<TrLine, TrManual>>}

InitTr ==
    /\ variant = 2
    /\ recipes \in TrCatalogs
    /\ plan \in {p \in SeqsUpTo(TrMeals, MaxPlanLen) : DistinctIds(p)}
    /\ planHistory = <<>>
    /\ storedPlan = {}
    /\ springForward = 0
    /\ inFlight = {}
    /\ shoppingItems \in TrLists
    /\ settings = [pantry_staples |-> <<Salt>>]
    /\ now = 3

Tr_Aggregate ==
    /\ LET generatedMap == Tr_generatedMapOf(shoppingItems, plan, recipes,
                                             settings.pantry_staples)
       IN \E rnd \in RandomDraws(generatedMap) :
              shoppingItems' = Tr_mergeShoppingList(shoppingItems, plan, recipes,
                                                    settings.pantry_staples, now, rnd)
    /\ UNCHANGED <<variant, recipes, plan, planHistory, settings, now,
                   storedPlan, springForward, inFlight>>

NextTr == Tr_Aggregate

SpecTr == InitTr /\ [][NextTr]_vars

(***************************************************************************)
(* The ids of the aggregate                                                *)
(***************************************************************************)
\* C29 (Unique ids in the aggregate): when the ids of the previous list are
\* pairwise distinct, the ids of the list that mergeShoppingList returns
\* are pairwise distinct, whatever the random draws are and whatever
\* translations the previous items carry.
C29_UniqueIds ==
    DistinctIds(shoppingItems) =>
        LET g == Tr_generatedMapOf(shoppingItems, plan, recipes, settings.pantry_staples)
        IN \A rnd \in RandomDraws(g) :
               DistinctIds(Tr_mergeShoppingList(shoppingItems, plan, recipes,
                                                settings.pantry_staples, now, rnd))

(***************************************************************************)
(* The undo history at its bound.  The user has stepped the servings of    *)
(* the one planned meal up from 1: snapshot i of the history is the plan   *)
(* with i servings.                                                        *)
(***************************************************************************)
\* slice(-9) and one more in savePlanToHistory, 50 in savePlanHistory
HistoryBound == IF variant = 1 THEN 10 ELSE 50

\* snapshot i of k: the meal on day k + 1 - i after today
MovedPlan(i, k) == <<MkMeal(1, Today + k + 1 - i, RecipeA2.id, RecipeA2.version, 2)>>

InitHist ==
    /\ variant \in {1, 2}
    /\ recipes = <<RecipeA2, RecipeB5>>
    /\ \E k \in {0, HistoryBound - 1} :
           /\ planHistory = [i \in 1..k |-> MovedPlan(i, k)]
           /\ plan = MovedPlan(k + 1, k)
    /\ storedPlan = Range(plan)
    /\ springForward = 0
    /\ inFlight = {}
    /\ shoppingItems = <<>>
    /\ settings = [pantry_staples |-> <<chickenLower, saltLower>>]
    /\ now = 1

\* the operations of the plan view on today's card, and undo
NextHist ==
    \/ handleAddMeal(Today, RecipeB5.id)
    \/ \E direction \in Directions : handleMoveMeal(Today, direction)
    \/ handleRemoveMeal(Today)
    \/ handleUndoPlan
    \/ App2_handleAddMeal(Today, RecipeB5.id)
    \/ \E direction \in Directions : App2_handleMoveMeal(Today, direction)
    \/ App2_handleRemoveMeal(Today)
    \/ \E mealId \in MealIds : \E newServings \in ServingsChoices :
           App2_handleUpdateServings(mealId, newServings)
    \/ handleUndo

SpecHist == InitHist /\ [][NextHist]_vars

\* what the history is after a snapshot of p is saved at the bound n
SavedAtBound(h, p, n) ==
    IF Len(h) >= n THEN Append(SubSeq(h, Len(h) - n + 2, Len(h)), p)
    ELSE Append(h, p)

\* C30 (Bounded undo history): the history never holds more than its bound
\* of snapshots, 10 in the first App variant and 50 in the second; a step
\* that is not an undo leaves the history as it is or saves the plan of
\* before the step as the newest snapshot, discarding the oldest one when
\* the history is at the bound and keeping the others in order; with an
\* empty history there is no undo step.
C30_BoundedHistory ==
    [][/\ Len(planHistory) <= HistoryBound
       /\ Len(planHistory') <= HistoryBound
       /\ \/ planHistory' = planHistory
          \/ planHistory' = SavedAtBound(planHistory, plan, HistoryBound)
          \/ UndoStep
       /\ Len(planHistory) = 0 => ~UndoStep]_vars

\* two snapshots have been saved on a history one short of its bound: the
\* oldest snapshot is gone, the second oldest is the first
C30_Witness ==
    /\ Len(planHistory) = HistoryBound
    /\ planHistory[1] = MovedPlan(2, HistoryBound - 1)
    /\ planHistory[HistoryBound - 1] = MovedPlan(HistoryBound, HistoryBound - 1)

====
